---- MODULE Spec2Model ----
(***************************************************************************)
(* Peg solitaire solver (ncux-ad/peg_solver): the bit-board engine, the    *)
(* verifier, the search engines and the meta-solvers.                      *)
(*                                                                         *)
(* A bit mask of the program (a Python int) is modelled as the set of its  *)
(* set bit positions: bit p of (x >> k) is bit p+k of x, bit p of (x << k) *)
(* is bit p-k of x, & is intersection, ^ is symmetric difference, and the  *)
(* order of two masks as integers is decided by their highest differing    *)
(* bit.  A board is the pair (pegs, valid_mask); db is the solution store  *)
(* on disk, pc and out are the position and the result of the request.     *)
(***************************************************************************)
EXTENDS Integers, Sequences, FiniteSets, TLC

VARIABLES valid, pegs, pc, out, db

vars == <<valid, pegs, pc, out, db>>

(***************************************************************************)
(* core/bitboard.py: constants                                             *)
(***************************************************************************)
ENGLISH_VALID_POSITIONS ==
    {2, 3, 4, 9, 10, 11,
     14, 15, 16, 17, 18, 19, 20,
     21, 22, 23, 24, 25, 26, 27,
     28, 29, 30, 31, 32, 33, 34,
     37, 38, 39, 44, 45, 46}

\* iteration order of the frozenset (ascending for these small ints)
EnglishOrder ==
    <<2, 3, 4, 9, 10, 11,
      14, 15, 16, 17, 18, 19, 20,
      21, 22, 23, 24, 25, 26, 27,
      28, 29, 30, 31, 32, 33, 34,
      37, 38, 39, 44, 45, 46>>

VALID_MASK == ENGLISH_VALID_POSITIONS

CENTER_POS == 24

BoardCells == 49

FullMask == 0 .. (BoardCells - 1)

RowOf(pos) == pos \div 7

ColOf(pos) == pos % 7

Abs(x) == IF x < 0 THEN -x ELSE x

Max(S) == CHOOSE x \in S : \A y \in S : y <= x

\* a < b for two masks compared as integers
MaskLess(a, b) ==
    LET d == (a \ b) \cup (b \ a)
    IN  d # {} /\ Max(d) \in b

\* min() of a non-empty list of masks
MinMask(S) == CHOOSE a \in S : \A b \in S : a = b \/ MaskLess(a, b)

peg_count(p) == Cardinality(p)

(***************************************************************************)
(* BitBoard.get_moves                                                      *)
(***************************************************************************)
Opt(cond, m) == IF cond THEN <<m>> ELSE <<>>

\* pegs & ~VALID_MASK: some peg lies outside the English cross
IsGeneric(p) == p \ VALID_MASK # {}

\* the moves appended for one position on the generic 7x7 branch
GenericMovesAt(p, pos) ==
    LET holes == FullMask \ p
        r == RowOf(pos)
        c == ColOf(pos)
    IN  IF pos \notin p THEN <<>>
        ELSE Opt(c <= 4 /\ (pos + 1) \in p /\ (pos + 2) \in holes,
                 <<pos, pos + 1, pos + 2>>)
          \o Opt(c >= 2 /\ (pos - 1) \in p /\ (pos - 2) \in holes,
                 <<pos, pos - 1, pos - 2>>)
          \o Opt(r <= 4 /\ (pos + 7) \in p /\ (pos + 14) \in holes,
                 <<pos, pos + 7, pos + 14>>)
          \o Opt(r >= 2 /\ (pos - 7) \in p /\ (pos - 14) \in holes,
                 <<pos, pos - 7, pos - 14>>)

\* the moves appended for one position on the English-cross branch
EnglishMovesAt(p, pos) ==
    LET holes == VALID_MASK \ p
        can_right == pos \in p /\ (pos + 1) \in p /\ (pos + 2) \in holes
        can_left  == pos \in p /\ (pos - 1) \in p /\ (pos - 2) \in holes
        can_down  == pos \in p /\ (pos + 7) \in p /\ (pos + 14) \in holes
        can_up    == pos \in p /\ (pos - 7) \in p /\ (pos - 14) \in holes
    IN  Opt(can_right /\ ColOf(pos) <= 4, <<pos, pos + 1, pos + 2>>)
     \o Opt(can_left /\ ColOf(pos) >= 2, <<pos, pos - 1, pos - 2>>)
     \o Opt(can_down /\ RowOf(pos) <= 4
                     /\ (pos + 14) \in ENGLISH_VALID_POSITIONS,
            <<pos, pos + 7, pos + 14>>)
     \o Opt(can_up /\ RowOf(pos) >= 2
                   /\ (pos - 14) \in ENGLISH_VALID_POSITIONS,
            <<pos, pos - 7, pos - 14>>)

RECURSIVE GenericMovesFrom(_, _)
GenericMovesFrom(p, pos) ==
    IF pos >= BoardCells THEN <<>>
    ELSE GenericMovesAt(p, pos) \o GenericMovesFrom(p, pos + 1)

RECURSIVE EnglishMovesFrom(_, _)
EnglishMovesFrom(p, i) ==
    IF i > Len(EnglishOrder) THEN <<>>
    ELSE EnglishMovesAt(p, EnglishOrder[i]) \o EnglishMovesFrom(p, i + 1)

get_moves(p) ==
    IF IsGeneric(p) THEN GenericMovesFrom(p, 0) ELSE EnglishMovesFrom(p, 1)

(***************************************************************************)
(* BitBoard.apply_move: three XORs                                         *)
(***************************************************************************)
Xor(a, b) == (a \ b) \cup (b \ a)

apply_move(p, m) == Xor(Xor(Xor(p, {m[1]}), {m[2]}), {m[3]})

(***************************************************************************)
(* BitBoard.is_dead                                                        *)
(***************************************************************************)
is_dead(p) ==
    IF peg_count(p) <= 1 THEN FALSE
    ELSE IF IsGeneric(p)
         THEN LET holes == FullMask \ p
              IN  ~ \E pos \in p :
                       \/ ColOf(pos) <= 4 /\ (pos + 1) \in p /\ (pos + 2) \in holes
                       \/ ColOf(pos) >= 2 /\ (pos - 1) \in p /\ (pos - 2) \in holes
                       \/ RowOf(pos) <= 4 /\ (pos + 7) \in p /\ (pos + 14) \in holes
                       \/ RowOf(pos) >= 2 /\ (pos - 7) \in p /\ (pos - 14) \in holes
         ELSE LET holes == VALID_MASK \ p
                  can_move ==
                     \E pos \in p :
                        \/ (pos + 1) \in p /\ (pos + 2) \in holes
                        \/ (pos - 1) \in p /\ (pos - 2) \in holes
                        \/ (pos + 7) \in p /\ (pos + 14) \in holes
                        \/ (pos - 7) \in p /\ (pos - 14) \in holes
              IN  ~ can_move

(***************************************************************************)
(* BitBoard.canonical and the two transforms it is built from              *)
(***************************************************************************)
\* the mutants of the two transforms: a rotation that forgets to move the
\* pegs, a reflection that forgets to mirror the column
rotate_90_pegs_unmoved(p) == p \cap ENGLISH_VALID_POSITIONS

flip_h_pegs_unmirrored(p) == p \cap ENGLISH_VALID_POSITIONS

_rotate_90_pegs(p) ==
    { ColOf(pos) * 7 + (6 - RowOf(pos)) : pos \in (p \cap ENGLISH_VALID_POSITIONS) }
       \cap ENGLISH_VALID_POSITIONS

_flip_h_pegs(p) ==
    { RowOf(pos) * 7 + (6 - ColOf(pos)) : pos \in (p \cap ENGLISH_VALID_POSITIONS) }
       \cap ENGLISH_VALID_POSITIONS

canonical(p) ==
    IF IsGeneric(p) THEN p
    ELSE LET r1 == _rotate_90_pegs(p)
             r2 == _rotate_90_pegs(r1)
             r3 == _rotate_90_pegs(r2)
             f0 == _flip_h_pegs(p)
             f1 == _rotate_90_pegs(f0)
             f2 == _rotate_90_pegs(f1)
             f3 == _rotate_90_pegs(f2)
         IN  MinMask({p, r1, r2, r3, f0, f1, f2, f3})

(***************************************************************************)
(* The boards the operations are run on.  valid_mask is the board's set of *)
(* cells; is_english_board compares it with the English cross.             *)
(***************************************************************************)
MaxPegs == 3

Range(s) == { s[i] : i \in 1 .. Len(s) }

RECURSIVE SubsetsUpTo(_, _)
SubsetsUpTo(S, k) ==
    IF k = 0 THEN {{}}
    ELSE LET prev == SubsetsUpTo(S, k - 1)
         IN  prev \cup { s \cup {x} : s \in prev, x \in S }

\* a strip that leaves the cross at cell 8, and the 5-cell plus inside it
Window == {8, 9, 10, 11, 15, 22}

Plus5 == {17, 23, 24, 25, 31}

EnglishBoards ==
    { <<VALID_MASK, p>> : p \in SubsetsUpTo(ENGLISH_VALID_POSITIONS, MaxPegs) }

ArbitraryBoards ==
    { <<v, p>> : v \in (SUBSET Window) \cup (SUBSET Plus5), p \in SUBSET (Window \cup Plus5) }

CutOutBoards == { b \in ArbitraryBoards : b[2] \subseteq b[1] }

Boards == EnglishBoards \cup CutOutBoards

is_english_board(v) == v = VALID_MASK

\* BitBoard(pegs): a board built from raw pegs, with no valid_mask given,
\* has the mask of BitBoard.english_start(), the English cross
BitBoard(p) == [pegs |-> p, valid_mask |-> VALID_MASK]

get_center_position(v) == CENTER_POS

None == [found |-> FALSE, path |-> <<>>]

Idle == [op |-> "none", res |-> None]

\* known_solutions.pkl, a dict from a key (a peg mask) to a move list; the
\* file does not exist at first, and neither does english_solution.json
EmptyStore == [key \in {} |-> <<>>]

InitBoard ==
    /\ \E b \in Boards : valid = b[1] /\ pegs = b[2]
    /\ pc = "ready"
    /\ out = Idle
    /\ db = EmptyStore

(***************************************************************************)
(* The board engine run on the current board                               *)
(***************************************************************************)
GetMoves ==
    /\ pc = "ready"
    /\ out' = [op |-> "get_moves", res |-> get_moves(pegs)]
    /\ pc' = "done"
    /\ UNCHANGED <<valid, pegs, db>>

IsDead ==
    /\ pc = "ready"
    /\ out' = [op |-> "is_dead", res |-> is_dead(pegs)]
    /\ pc' = "done"
    /\ UNCHANGED <<valid, pegs, db>>

Canonical ==
    /\ pc = "ready"
    /\ out' = [op |-> "canonical", res |-> canonical(pegs)]
    /\ pc' = "done"
    /\ UNCHANGED <<valid, pegs, db>>

ApplyMove ==
    /\ pc = "ready"
    /\ \E i \in 1 .. Len(get_moves(pegs)) :
          /\ pegs' = BitBoard(apply_move(pegs, get_moves(pegs)[i])).pegs
          /\ valid' = BitBoard(apply_move(pegs, get_moves(pegs)[i])).valid_mask
          /\ out' = [op |-> "apply_move", res |-> get_moves(pegs)[i]]
    /\ UNCHANGED <<pc, db>>

NextBoard == GetMoves \/ IsDead \/ Canonical \/ ApplyMove

SpecBoard == InitBoard /\ [][NextBoard]_vars

(***************************************************************************)
(* solutions/verify.py: verify_bitboard_solution                           *)
(***************************************************************************)
\* the loop over the moves from the i-th on: the pegs left, or a rejection
RECURSIVE VerifyLoop(_, _, _, _)
VerifyLoop(p, v, moves, i) ==
    IF i > Len(moves) THEN [ok |-> TRUE, pegs |-> p]
    ELSE LET from_pos == moves[i][1]
             jumped   == moves[i][2]
             to_pos   == moves[i][3]
         IN  IF ~ (from_pos \in FullMask /\ jumped \in FullMask /\ to_pos \in FullMask)
             THEN [ok |-> FALSE, pegs |-> p]
             ELSE IF from_pos \notin v \/ jumped \notin v \/ to_pos \notin v
             THEN [ok |-> FALSE, pegs |-> p]
             ELSE IF from_pos \notin p \/ jumped \notin p \/ to_pos \in p
             THEN [ok |-> FALSE, pegs |-> p]
             ELSE VerifyLoop(Xor(Xor(Xor(p, {from_pos}), {jumped}), {to_pos}),
                             v, moves, i + 1)

verify_bitboard_solution(p, v, moves, require_center) ==
    IF moves = <<>> THEN peg_count(p) = 1
    ELSE LET run == VerifyLoop(p, v, moves, 1)
         IN  /\ run.ok
             /\ run.pegs # {}
             /\ peg_count(run.pegs) = 1
             /\ (require_center => run.pegs = {24})

\* the boards and the move lists the verifier is run on
MaxVerifyLen == 2

VerifyCells == {23, 24, 25, 26}

OutOfRange == 49

VerifyBoards ==
    { <<VALID_MASK, p>> : p \in SUBSET VerifyCells }
       \cup { <<{23, 24, 25}, p>> : p \in SUBSET {23, 24, 25} }

VerifyTriples ==
    LET C == VerifyCells \cup {OutOfRange} IN C \X C \X C

RECURSIVE SeqsUpTo(_, _)
SeqsUpTo(S, n) ==
    IF n = 0 THEN {<<>>}
    ELSE LET prev == SeqsUpTo(S, n - 1)
         IN  prev \cup { Append(q, x) : q \in prev, x \in S }

InitVerify ==
    /\ \E b \in VerifyBoards : valid = b[1] /\ pegs = b[2]
    /\ pc = "ready"
    /\ out = Idle
    /\ db = EmptyStore

Verify ==
    /\ pc = "ready"
    /\ \E moves \in SeqsUpTo(VerifyTriples, MaxVerifyLen), require_center \in BOOLEAN :
          out' = [op |-> "verify",
                  res |-> verify_bitboard_solution(pegs, valid, moves, require_center),
                  moves |-> moves,
                  require_center |-> require_center]
    /\ pc' = "done"
    /\ UNCHANGED <<valid, pegs, db>>

NextVerify == Verify

SpecVerify == InitVerify /\ [][NextVerify]_vars

(***************************************************************************)
(* heuristics/pagoda.py, heuristics/basic.py, heuristics/advanced.py       *)
(***************************************************************************)
\* a weight table whose centre outweighs the two cells beside it
PagodaGrid_heavy_centre ==
    <<0, 0, 1, 2, 1, 0, 0,
      0, 0, 2, 4, 2, 0, 0,
      1, 2, 3, 4, 3, 2, 1,
      2, 4, 4, 9, 4, 4, 2,
      1, 2, 3, 4, 3, 2, 1,
      0, 0, 2, 4, 2, 0, 0,
      0, 0, 1, 2, 1, 0, 0>>

\* PAGODA_WEIGHTS, laid out as the 7x7 grid; 0 where the dict has no entry
\* (PAGODA_WEIGHTS.get(pos, 0))
PagodaGrid ==
    <<0, 0, 1, 2, 1, 0, 0,
      0, 0, 2, 4, 2, 0, 0,
      1, 2, 3, 4, 3, 2, 1,
      2, 4, 4, 6, 4, 4, 2,
      1, 2, 3, 4, 3, 2, 1,
      0, 0, 2, 4, 2, 0, 0,
      0, 0, 1, 2, 1, 0, 0>>

PAGODA_WEIGHTS == [pos \in FullMask |-> PagodaGrid[pos + 1]]

RECURSIVE SumOver(_, _)
SumOver(f, S) ==
    IF S = {} THEN 0
    ELSE LET x == CHOOSE y \in S : TRUE
         IN  f[x] + SumOver(f, S \ {x})

pagoda_value(p) == SumOver(PAGODA_WEIGHTS, p \cap ENGLISH_VALID_POSITIONS)

target_pagoda == PAGODA_WEIGHTS[CENTER_POS]

min_pagoda ==
    CHOOSE w \in { PAGODA_WEIGHTS[pos] : pos \in ENGLISH_VALID_POSITIONS } :
        \A pos \in ENGLISH_VALID_POSITIONS : w <= PAGODA_WEIGHTS[pos]

\* Manhattan distance of a cell to the cell (3, 3)
CenterDist == [pos \in FullMask |-> Abs(RowOf(pos) - 3) + Abs(ColOf(pos) - 3)]

heuristic_peg_count(p) == peg_count(p) - 1

heuristic_distance_to_center(p) == SumOver(CenterDist, p \cap ENGLISH_VALID_POSITIONS)

heuristic_mobility(p) == Len(get_moves(p))

\* neighbour_pos = nr * 7 + nc is pos - 7, pos + 7, pos - 1, pos + 1, with
\* no test that the column stays on the board
heuristic_isolated(p) ==
    Cardinality({ pos \in p \cap ENGLISH_VALID_POSITIONS :
                    \A n \in {pos - 7, pos + 7, pos - 1, pos + 1} :
                        ~ (n \in ENGLISH_VALID_POSITIONS /\ n \in p) })

\* combined_heuristic with aggressive = False, times 10: the float
\* steps + (count - 1) + 0.3 * dist + 0.5 * isolated - 0.5 * mobility is
\* only ever compared, and orders the boards as this integer does
combined_heuristic(p, steps) ==
    10 * steps + 10 * heuristic_peg_count(p)
       + 3 * heuristic_distance_to_center(p)
       + 5 * heuristic_isolated(p) - 5 * heuristic_mobility(p)

\* solvers/optimized_utils.py: the Python fallback of the evaluation
_count_isolated_python(p) == heuristic_isolated(p)

_evaluate_position_python(p, num_moves) ==
    peg_count(p) * 10
      + SumOver(CenterDist, p \cap ENGLISH_VALID_POSITIONS)
      - num_moves * 2
      + _count_isolated_python(p) * 15
      + (IF peg_count(p) > 15
         THEN (IF pagoda_value(p) < target_pagoda THEN 1000 ELSE 0)
         ELSE (IF pagoda_value(p) < min_pagoda THEN 1000 ELSE 0))

evaluate_position_optimized(p, num_moves) == _evaluate_position_python(p, num_moves)

(***************************************************************************)
(* sorted(list, key = ...): a stable sort of <<key, item>> pairs           *)
(***************************************************************************)
RECURSIVE InsertByKey(_, _)
InsertByKey(s, x) ==
    IF s = <<>> THEN <<x>>
    ELSE IF x[1] < Head(s)[1] THEN <<x>> \o s
    ELSE <<Head(s)>> \o InsertByKey(Tail(s), x)

RECURSIVE SortByKey(_)
SortByKey(s) ==
    IF s = <<>> THEN <<>>
    ELSE InsertByKey(SortByKey(SubSeq(s, 1, Len(s) - 1)), s[Len(s)])

Items(s) == [i \in 1 .. Len(s) |-> s[i][2]]

(***************************************************************************)
(* solvers/base.py, solvers/dfs.py: DFSSolver                              *)
(***************************************************************************)
_get_key(use_symmetry, p) == IF use_symmetry THEN canonical(p) ELSE p

NotFound(memo) == [found |-> FALSE, path |-> <<>>, memo |-> memo]

\* priority = center_dist - 0.1 * PAGODA_WEIGHTS.get(jumped, 0), times 10
DFSSolver_sort_moves(moves) ==
    Items(SortByKey([i \in 1 .. Len(moves) |->
        <<10 * CenterDist[moves[i][3]] - PAGODA_WEIGHTS[moves[i][2]], moves[i]>>]))

RECURSIVE DFSSolver_dfs(_, _, _, _)
RECURSIVE DFSSolver_loop(_, _, _, _, _, _)
DFSSolver_dfs(cfg, p, path, memo) ==
    IF peg_count(p) = 1 THEN [found |-> TRUE, path |-> path, memo |-> memo]
    ELSE LET key == _get_key(cfg.use_symmetry, p)
         IN  IF key \in memo THEN NotFound(memo)
             ELSE IF cfg.use_pagoda /\ pagoda_value(p) < PAGODA_WEIGHTS[CENTER_POS]
             THEN NotFound(memo \cup {key})
             ELSE LET moves == get_moves(p)
                  IN  IF moves = <<>> THEN NotFound(memo \cup {key})
                      ELSE LET sorted == IF cfg.sort_moves
                                         THEN DFSSolver_sort_moves(moves)
                                         ELSE moves
                               r == DFSSolver_loop(cfg, p, sorted, 1, path, memo)
                           IN  IF r.found THEN r ELSE NotFound(r.memo \cup {key})

DFSSolver_loop(cfg, p, moves, i, path, memo) ==
    IF i > Len(moves) THEN NotFound(memo)
    ELSE LET r == DFSSolver_dfs(cfg, apply_move(p, moves[i]),
                                Append(path, moves[i]), memo)
         IN  IF r.found THEN r
             ELSE DFSSolver_loop(cfg, p, moves, i + 1, path, r.memo)

DFSDefaults == [use_symmetry |-> TRUE, sort_moves |-> TRUE, use_pagoda |-> TRUE]

DFSSolver_solve(cfg, p) == DFSSolver_dfs(cfg, p, <<>>, {})

(***************************************************************************)
(* solvers/dfs_memo.py: DFSMemoSolver                                      *)
(***************************************************************************)
DFSMemoSolver_sort_moves(v, moves) ==
    LET center_pos == get_center_position(v)
    IN  Items(SortByKey([i \in 1 .. Len(moves) |->
            <<Abs(RowOf(moves[i][3]) - RowOf(center_pos))
                + Abs(ColOf(moves[i][3]) - ColOf(center_pos)), moves[i]>>]))

DFSMemoPagodaPrune(cfg, v, p) ==
    /\ cfg.use_pagoda
    /\ is_english_board(v)
    /\ IF peg_count(p) > 15
       THEN pagoda_value(p) < PAGODA_WEIGHTS[CENTER_POS]
       ELSE pagoda_value(p) < min_pagoda

RECURSIVE DFSMemoSolver_dfs(_, _, _, _, _)
RECURSIVE DFSMemoSolver_loop(_, _, _, _, _, _, _)
DFSMemoSolver_dfs(cfg, v, p, path, memo) ==
    IF peg_count(p) = 1 THEN [found |-> TRUE, path |-> path, memo |-> memo]
    ELSE LET key == _get_key(cfg.use_symmetry, p)
         IN  IF key \in memo THEN NotFound(memo)
             ELSE IF DFSMemoPagodaPrune(cfg, v, p) THEN NotFound(memo \cup {key})
             ELSE LET moves == get_moves(p)
                  IN  IF moves = <<>> THEN NotFound(memo \cup {key})
                      ELSE LET sorted == IF cfg.sort_moves
                                         THEN DFSMemoSolver_sort_moves(v, moves)
                                         ELSE moves
                               r == DFSMemoSolver_loop(cfg, v, p, sorted, 1, path, memo)
                           IN  IF r.found THEN r ELSE NotFound(r.memo \cup {key})

DFSMemoSolver_loop(cfg, v, p, moves, i, path, memo) ==
    IF i > Len(moves) THEN NotFound(memo)
    ELSE LET new_board == BitBoard(apply_move(p, moves[i]))
             r == DFSMemoSolver_dfs(cfg, new_board.valid_mask, new_board.pegs,
                                    Append(path, moves[i]), memo)
         IN  IF r.found THEN r
             ELSE DFSMemoSolver_loop(cfg, v, p, moves, i + 1, path, r.memo)

DFSMemoSolver_solve(cfg, v, p) == DFSMemoSolver_dfs(cfg, v, p, <<>>, {})

\* the root call of _dfs reaches moves = board.get_moves(): the board has
\* not one peg, its key is not in the cleared memo, and Pagoda does not
\* prune it
DFSMemoSolver_generates(cfg, v, p) ==
    /\ peg_count(p) # 1
    /\ _get_key(cfg.use_symmetry, p) \notin {}
    /\ ~ DFSMemoPagodaPrune(cfg, v, p)

(***************************************************************************)
(* solvers/simple_dfs.py: SimpleDFSSolver (the optimized_* wrappers fall   *)
(* back to the BitBoard methods)                                           *)
(***************************************************************************)
RECURSIVE SimpleDFSSolver_dfs(_, _)
RECURSIVE SimpleDFSSolver_loop(_, _, _, _)
SimpleDFSSolver_dfs(p, path) ==
    IF peg_count(p) = 1 THEN [found |-> TRUE, path |-> path]
    ELSE LET moves == get_moves(p)
         IN  IF moves = <<>> THEN None
             ELSE SimpleDFSSolver_loop(p, moves, 1, path)

SimpleDFSSolver_loop(p, moves, i, path) ==
    IF i > Len(moves) THEN None
    ELSE LET r == SimpleDFSSolver_dfs(apply_move(p, moves[i]), Append(path, moves[i]))
         IN  IF r.found THEN r ELSE SimpleDFSSolver_loop(p, moves, i + 1, path)

SimpleDFSSolver_solve(p) == SimpleDFSSolver_dfs(p, <<>>)

(***************************************************************************)
(* solvers/beam.py: BeamSolver                                             *)
(***************************************************************************)
\* the loop over the moves of one beam node: the visited set and the
\* candidate list (<<score, <<board, path>>>>) grow
RECURSIVE BeamMoves(_, _, _, _, _, _, _)
BeamMoves(cfg, current, path, moves, j, visited, candidates) ==
    IF j > Len(moves) THEN [visited |-> visited, candidates |-> candidates]
    ELSE LET new_board == apply_move(current, moves[j])
             key == _get_key(cfg.use_symmetry, new_board)
         IN  IF key \in visited
             THEN BeamMoves(cfg, current, path, moves, j + 1, visited, candidates)
             ELSE LET num_moves == Len(get_moves(new_board))
                      score == evaluate_position_optimized(new_board, num_moves)
                  IN  BeamMoves(cfg, current, path, moves, j + 1,
                                visited \cup {key},
                                Append(candidates,
                                       <<score, <<new_board, Append(path, moves[j])>>>>))

\* the loop over the nodes of the beam at one depth
RECURSIVE BeamNodes(_, _, _, _, _)
BeamNodes(cfg, beam, i, visited, candidates) ==
    IF i > Len(beam)
    THEN [found |-> FALSE, path |-> <<>>, visited |-> visited, candidates |-> candidates]
    ELSE LET current == beam[i][1]
             path == beam[i][2]
         IN  IF peg_count(current) = 1
             THEN [found |-> TRUE, path |-> path,
                   visited |-> visited, candidates |-> candidates]
             ELSE LET r == BeamMoves(cfg, current, path, get_moves(current), 1,
                                     visited, candidates)
                  IN  BeamNodes(cfg, beam, i + 1, r.visited, r.candidates)

RECURSIVE BeamDepth(_, _, _, _)
BeamDepth(cfg, beam, visited, depth) ==
    IF depth >= cfg.max_depth \/ beam = <<>> THEN None
    ELSE LET r == BeamNodes(cfg, beam, 1, visited, <<>>)
         IN  IF r.found THEN [found |-> TRUE, path |-> r.path]
             ELSE LET sorted == Items(SortByKey(r.candidates))
                      kept == SubSeq(sorted, 1,
                                     IF Len(sorted) < cfg.beam_width
                                     THEN Len(sorted) ELSE cfg.beam_width)
                  IN  BeamDepth(cfg, kept, r.visited, depth + 1)

BeamSolver_solve(cfg, p) ==
    BeamDepth(cfg, <<<<p, <<>>>>>>, {_get_key(cfg.use_symmetry, p)}, 0)

BeamDefaultWidth == 100

BeamDefaultDepth == 35

BeamDefaults ==
    [beam_width |-> BeamDefaultWidth, max_depth |-> BeamDefaultDepth,
     use_symmetry |-> TRUE]

(***************************************************************************)
(* solvers/astar.py: AStarSolver                                           *)
(***************************************************************************)
\* heappop: the least (h, counter) of the heap
HeapMin(heap) ==
    CHOOSE e \in heap : \A o \in heap :
        e.h < o.h \/ (e.h = o.h /\ e.counter <= o.counter)

RECURSIVE AStar_reconstruct_path(_, _, _)
AStar_reconstruct_path(visited, key, start_key) ==
    IF key = start_key THEN <<>>
    ELSE Append(AStar_reconstruct_path(visited, visited[key].parent, start_key),
                visited[key].move)

\* the loop over the moves of the popped board
RECURSIVE AStarMoves(_, _, _, _, _, _, _)
AStarMoves(current, moves, j, steps, heap, visited, counter) ==
    IF j > Len(moves) THEN [heap |-> heap, visited |-> visited, counter |-> counter]
    ELSE LET new_board == apply_move(current, moves[j])
             new_key == _get_key(TRUE, new_board)
             new_steps == steps + 1
         IN  IF new_key \in DOMAIN visited /\ visited[new_key].steps <= new_steps
             THEN AStarMoves(current, moves, j + 1, steps, heap, visited, counter)
             ELSE AStarMoves(current, moves, j + 1, steps,
                    heap \cup {[h |-> combined_heuristic(new_board, new_steps),
                                counter |-> counter + 1,
                                steps |-> new_steps, board |-> new_board]},
                    [k \in DOMAIN visited \cup {new_key} |->
                        IF k = new_key
                        THEN [steps |-> new_steps,
                              parent |-> _get_key(TRUE, current), move |-> moves[j]]
                        ELSE visited[k]],
                    counter + 1)

RECURSIVE AStarLoop(_, _, _, _)
AStarLoop(heap, visited, counter, start_key) ==
    IF heap = {} THEN None
    ELSE LET e == HeapMin(heap)
             rest == heap \ {e}
         IN  IF peg_count(e.board) = 1
             THEN [found |-> TRUE,
                   path |-> AStar_reconstruct_path(visited, _get_key(TRUE, e.board),
                                                   start_key)]
             ELSE IF is_dead(e.board) THEN AStarLoop(rest, visited, counter, start_key)
             ELSE LET r == AStarMoves(e.board, get_moves(e.board), 1, e.steps,
                                      rest, visited, counter)
                  IN  AStarLoop(r.heap, r.visited, r.counter, start_key)

AStarSolver_solve(v, p) ==
    IF is_english_board(v) /\ pagoda_value(p) < PAGODA_WEIGHTS[CENTER_POS] THEN None
    ELSE LET start_key == _get_key(TRUE, p)
         IN  AStarLoop({[h |-> combined_heuristic(p, 0), counter |-> 0,
                         steps |-> 0, board |-> p]},
                       [k \in {start_key} |->
                           [steps |-> 0, parent |-> start_key, move |-> <<>>]],
                       0, start_key)

(***************************************************************************)
(* solvers/astar.py: IDAStarSolver                                         *)
(***************************************************************************)
\* float('inf'): above every f = g + pegs - 1 of a 49-cell board
INF == 1000000

IDAStarDefaultDepth == 35

IDAStar_sort(v, moves) ==
    LET center_pos == get_center_position(v)
    IN  Items(SortByKey([i \in 1 .. Len(moves) |->
            <<Abs(RowOf(moves[i][3]) - RowOf(center_pos))
                + Abs(ColOf(moves[i][3]) - ColOf(center_pos)), moves[i]>>]))

IDAMiss(threshold, visited) ==
    [found |-> FALSE, path |-> <<>>, threshold |-> threshold, visited |-> visited]

RECURSIVE IDAStar_search(_, _, _, _, _, _)
RECURSIVE IDAStar_loop(_, _, _, _, _, _, _, _, _)
IDAStar_search(v, p, g, bound, path, visited) ==
    LET f == g + (peg_count(p) - 1)
    IN  IF f > bound THEN IDAMiss(f, visited)
        ELSE IF peg_count(p) = 1
        THEN [found |-> TRUE, path |-> path, threshold |-> f, visited |-> visited]
        ELSE IF is_english_board(v) /\ pagoda_value(p) < PAGODA_WEIGHTS[CENTER_POS]
        THEN IDAMiss(INF, visited)
        ELSE LET key == _get_key(TRUE, p)
             IN  IF key \in visited THEN IDAMiss(INF, visited)
                 ELSE LET moves == get_moves(p)
                      IN  IF moves = <<>> THEN IDAMiss(INF, visited \cup {key})
                          ELSE IDAStar_loop(v, p, IDAStar_sort(v, moves), 1, g, bound,
                                            path, visited \cup {key}, INF)

IDAStar_loop(v, p, moves, i, g, bound, path, visited, min_threshold) ==
    IF i > Len(moves) THEN IDAMiss(min_threshold, visited)
    ELSE LET r == IDAStar_search(v, apply_move(p, moves[i]), g + 1, bound,
                                 Append(path, moves[i]), visited)
         IN  IF r.found THEN r
             ELSE IDAStar_loop(v, p, moves, i + 1, g, bound, path, r.visited,
                               IF r.threshold < min_threshold
                               THEN r.threshold ELSE min_threshold)

RECURSIVE IDAStar_bounds(_, _, _, _)
IDAStar_bounds(max_depth, v, p, bound) ==
    IF bound > max_depth THEN None
    ELSE LET r == IDAStar_search(v, p, 0, bound, <<>>, {})
         IN  IF r.found THEN [found |-> TRUE, path |-> r.path]
             ELSE IF r.threshold = INF THEN None
             ELSE IDAStar_bounds(max_depth, v, p, r.threshold)

IDAStarSolver_solve(max_depth, v, p) ==
    IDAStar_bounds(max_depth, v, p, peg_count(p) - 1)

(***************************************************************************)
(* core/zobrist.py, solvers/zobrist_dfs.py: ZobristDFSSolver               *)
(***************************************************************************)
\* The Zobrist hash is the XOR of one table word per peg on the cross.  The
\* 33 words of the table (random.seed(42)) are linearly independent over
\* GF(2), so a XOR of table words is determined by the set of cells whose
\* word enters it an odd number of times: the word of a cell is modelled by
\* that cell alone and XOR by the symmetric difference.  The table has no
\* word for a cell outside the English cross.
ZOBRIST_TABLE == [pos \in ENGLISH_VALID_POSITIONS |-> {pos}]

RECURSIVE ZobristFold(_, _, _)
ZobristFold(p, i, h) ==
    IF i > Len(EnglishOrder) THEN h
    ELSE ZobristFold(p, i + 1,
                     IF EnglishOrder[i] \in p
                     THEN Xor(h, ZOBRIST_TABLE[EnglishOrder[i]]) ELSE h)

compute_zobrist_hash(p) == ZobristFold(p, 1, {})

\* update_zobrist_hash: three XORs; ZOBRIST_TABLE[pos] raises KeyError for a
\* cell the table has no word for
update_zobrist_hash(current_hash, from_pos, jumped_pos, to_pos) ==
    IF {from_pos, jumped_pos, to_pos} \subseteq DOMAIN ZOBRIST_TABLE
    THEN [raised |-> FALSE,
          hash |-> Xor(Xor(Xor(current_hash, ZOBRIST_TABLE[from_pos]),
                           ZOBRIST_TABLE[jumped_pos]),
                       ZOBRIST_TABLE[to_pos])]
    ELSE [raised |-> TRUE, hash |-> current_hash]

\* ZobristBitBoard.apply_move on the board with these pegs and this hash
ZobristBitBoard_apply_move(p, zobrist_hash, m) ==
    [pegs |-> apply_move(p, m),
     new_hash |-> update_zobrist_hash(zobrist_hash, m[1], m[2], m[3])]

\* ZobristBitBoard.get_moves: the English-cross masks only, the two
\* horizontal directions of every cell before the two vertical ones
RECURSIVE ZobristHorizontal(_, _)
ZobristHorizontal(p, i) ==
    IF i > Len(EnglishOrder) THEN <<>>
    ELSE LET pos == EnglishOrder[i]
             holes == VALID_MASK \ p
         IN  Opt(pos \in p /\ (pos + 1) \in p /\ (pos + 2) \in holes /\ ColOf(pos) <= 4,
                 <<pos, pos + 1, pos + 2>>)
          \o Opt(pos \in p /\ (pos - 1) \in p /\ (pos - 2) \in holes /\ ColOf(pos) >= 2,
                 <<pos, pos - 1, pos - 2>>)
          \o ZobristHorizontal(p, i + 1)

RECURSIVE ZobristVertical(_, _)
ZobristVertical(p, i) ==
    IF i > Len(EnglishOrder) THEN <<>>
    ELSE LET pos == EnglishOrder[i]
             holes == VALID_MASK \ p
         IN  Opt(pos \in p /\ (pos + 7) \in p /\ (pos + 14) \in holes /\ RowOf(pos) <= 4
                    /\ (pos + 14) \in ENGLISH_VALID_POSITIONS,
                 <<pos, pos + 7, pos + 14>>)
          \o Opt(pos \in p /\ (pos - 7) \in p /\ (pos - 14) \in holes /\ RowOf(pos) >= 2
                    /\ (pos - 14) \in ENGLISH_VALID_POSITIONS,
                 <<pos, pos - 7, pos - 14>>)
          \o ZobristVertical(p, i + 1)

Zobrist_get_moves(p) == ZobristHorizontal(p, 1) \o ZobristVertical(p, 1)

ZobristDFS_sort_moves(moves) ==
    Items(SortByKey([i \in 1 .. Len(moves) |-> <<CenterDist[moves[i][3]], moves[i]>>]))

RECURSIVE ZobristDFS_dfs(_, _, _, _)
RECURSIVE ZobristDFS_loop(_, _, _, _, _, _)
ZobristDFS_dfs(cfg, p, path, visited) ==
    IF peg_count(p) = 1 THEN [found |-> TRUE, path |-> path, memo |-> visited]
    ELSE LET h == compute_zobrist_hash(p)
         IN  IF h \in visited THEN NotFound(visited)
             ELSE IF cfg.use_pagoda /\ pagoda_value(p) < PAGODA_WEIGHTS[CENTER_POS]
             THEN NotFound(visited \cup {h})
             ELSE LET moves == Zobrist_get_moves(p)
                  IN  IF moves = <<>> THEN NotFound(visited \cup {h})
                      ELSE ZobristDFS_loop(cfg, p,
                               IF cfg.sort_moves THEN ZobristDFS_sort_moves(moves)
                               ELSE moves,
                               1, path, visited \cup {h})

ZobristDFS_loop(cfg, p, moves, i, path, visited) ==
    IF i > Len(moves) THEN NotFound(visited)
    ELSE LET r == ZobristDFS_dfs(cfg, apply_move(p, moves[i]),
                                 Append(path, moves[i]), visited)
         IN  IF r.found THEN r
             ELSE ZobristDFS_loop(cfg, p, moves, i + 1, path, r.memo)

ZobristDefaults == [use_symmetry |-> FALSE, sort_moves |-> TRUE, use_pagoda |-> TRUE]

ZobristDFSSolver_solve(cfg, p) == ZobristDFS_dfs(cfg, p, <<>>, {})

(***************************************************************************)
(* The search engines run on the current board                             *)
(***************************************************************************)
Solved(name, r) ==
    [op |-> "solve", solver |-> name,
     res |-> [found |-> r.found, path |-> r.path], memo |-> {}]

SolveDFS ==
    /\ pc = "ready"
    /\ out' = Solved("dfs", DFSSolver_solve(DFSDefaults, pegs))
    /\ pc' = "done"
    /\ UNCHANGED <<valid, pegs, db>>

SolveDFSMemo ==
    /\ pc = "ready"
    /\ LET r == DFSMemoSolver_solve(DFSDefaults, valid, pegs)
       IN  out' = [Solved("dfs_memo", r) EXCEPT !.memo = r.memo]
    /\ pc' = "done"
    /\ UNCHANGED <<valid, pegs, db>>

SolveSimpleDFS ==
    /\ pc = "ready"
    /\ out' = Solved("simple_dfs", SimpleDFSSolver_solve(pegs))
    /\ pc' = "done"
    /\ UNCHANGED <<valid, pegs, db>>

SolveBeam ==
    /\ pc = "ready"
    /\ out' = Solved("beam", BeamSolver_solve(BeamDefaults, pegs))
    /\ pc' = "done"
    /\ UNCHANGED <<valid, pegs, db>>

SolveAStar ==
    /\ pc = "ready"
    /\ out' = Solved("astar", AStarSolver_solve(valid, pegs))
    /\ pc' = "done"
    /\ UNCHANGED <<valid, pegs, db>>

SolveIDAStar ==
    /\ pc = "ready"
    /\ out' = Solved("ida_star", IDAStarSolver_solve(IDAStarDefaultDepth, valid, pegs))
    /\ pc' = "done"
    /\ UNCHANGED <<valid, pegs, db>>

SolveZobristDFS ==
    /\ pc = "ready"
    /\ out' = Solved("zobrist_dfs", ZobristDFSSolver_solve(ZobristDefaults, pegs))
    /\ pc' = "done"
    /\ UNCHANGED <<valid, pegs, db>>

NextSolve ==
    \/ SolveDFS \/ SolveDFSMemo \/ SolveSimpleDFS \/ SolveBeam
    \/ SolveAStar \/ SolveIDAStar \/ SolveZobristDFS

SpecSolve == InitBoard /\ [][NextSolve]_vars

(***************************************************************************)
(* solvers/lookup.py: LookupSolver                                         *)
(***************************************************************************)
Found(path) == [found |-> TRUE, path |-> path]

\* "if solution:" - a list that is neither None nor empty
Truthy(r) == r.found /\ r.path # <<>>

\* _load_solutions: the pickled dict when the file exists; no English
\* solution is added, get_cached_solution finding no english_solution.json
_load_solutions(store) == store

_check_exact_match(solutions_db, p) ==
    IF p \in DOMAIN solutions_db THEN Found(solutions_db[p]) ELSE None

\* _transform_solution returns the stored list unchanged on both branches
_transform_solution(solution) == solution

_check_canonical_match(solutions_db, v, p) ==
    IF ~ is_english_board(v) THEN None
    ELSE IF canonical(p) \in DOMAIN solutions_db
    THEN Found(_transform_solution(solutions_db[canonical(p)]))
    ELSE None

\* _check_waypoints returns None on every path
_check_waypoints(solutions_db, v, p) == None

LookupKey(v, p) == IF is_english_board(v) THEN canonical(p) ELSE p

\* solutions_db[key] = solution; _save_solutions()
StoreSolution(solutions_db, new_key, solution) ==
    [key \in DOMAIN solutions_db \cup {new_key} |->
        IF key = new_key THEN solution ELSE solutions_db[key]]

\* a found list of the fallback is stored and saved
StoreIfFound(solutions_db, new_key, solution) ==
    [res |-> solution,
     db  |-> IF Truthy(solution)
             THEN StoreSolution(solutions_db, new_key, solution.path)
             ELSE solutions_db]

\* _fallback_solve: Beam Search
_fallback_solve(solutions_db, v, p) ==
    StoreIfFound(solutions_db, LookupKey(v, p),
                 BeamSolver_solve(
                     [beam_width |-> 500, max_depth |-> 35, use_symmetry |-> TRUE], p))

\* the result of LookupSolver(...).solve(board) and the store file after it
\* "if match: return match", else the next way
OrElse(match, store, next) ==
    IF Truthy(match) THEN [res |-> match, db |-> store] ELSE next

LookupSolver_solve(use_fallback, store, v, p) ==
    OrElse(_check_exact_match(_load_solutions(store), p), store,
      OrElse(_check_canonical_match(_load_solutions(store), v, p), store,
        OrElse(_check_waypoints(_load_solutions(store), v, p), store,
          IF use_fallback THEN _fallback_solve(_load_solutions(store), v, p)
          ELSE [res |-> None, db |-> store])))

(***************************************************************************)
(* solvers/sequential.py: SequentialSolver; solvers/hybrid.py: HybridSolver*)
(***************************************************************************)
RECURSIVE apply_moves(_, _)
apply_moves(p, moves) ==
    IF moves = <<>> THEN p
    ELSE apply_moves(apply_move(p, Head(moves)), Tail(moves))

_validate_solution(p, solution) == peg_count(apply_moves(p, solution)) = 1

NoPagoda == [use_symmetry |-> TRUE, sort_moves |-> TRUE, use_pagoda |-> FALSE]

WideBeam == [beam_width |-> 500, max_depth |-> 50, use_symmetry |-> TRUE]

SequentialStrategies(p) ==
    (IF peg_count(p) < 10
     THEN <<"Lookup", "Beam Search", "DFS">>
     ELSE <<"Lookup", "DFS", "Beam Search">>)
       \o <<"Zobrist DFS", "A*", "IDA*">>

HybridStrategies(p) ==
    IF peg_count(p) < 10 THEN <<"Beam Search", "DFS">> ELSE <<"DFS", "Beam Search">>

max_depth_unlimited == 1000

\* the list a search returns, without its memo
Listed(r) == [found |-> r.found, path |-> r.path]

\* the lambda of one strategy
RunStrategy(name, store, v, p) ==
    CASE name = "Lookup" -> LookupSolver_solve(FALSE, store, v, p).res
      [] name = "Beam Search" -> BeamSolver_solve(WideBeam, p)
      [] name = "DFS" -> Listed(DFSSolver_solve(NoPagoda, p))
      [] name = "Zobrist DFS" ->
            Listed(ZobristDFSSolver_solve(
                       [use_symmetry |-> FALSE, sort_moves |-> TRUE,
                        use_pagoda |-> FALSE], p))
      [] name = "A*" -> AStarSolver_solve(v, p)
      [] name = "IDA*" -> IDAStarSolver_solve(max_depth_unlimited, v, p)

MetaNone == [found |-> FALSE, path |-> <<>>, engine |-> "none"]

MetaFound(r, name) == [found |-> TRUE, path |-> r.path, engine |-> name]

\* the loop over the strategies from the idx-th on; the clock passes the
\* timeout just before strategy number started + 1 is reached
\* a Lookup result is returned when it is a non-empty list, another
\* strategy's when it passes _validate_solution
SequentialAccepts(name, p, result) ==
    /\ result.found
    /\ IF name = "Lookup" THEN result.path # <<>>
       ELSE _validate_solution(p, result.path)

SequentialTry(name, p, result, rest) ==
    IF SequentialAccepts(name, p, result) THEN MetaFound(result, name) ELSE rest

RECURSIVE SequentialLoop(_, _, _, _, _, _)
SequentialLoop(strategies, idx, started, store, v, p) ==
    IF idx > Len(strategies) THEN MetaNone
    ELSE IF idx > started
    THEN SequentialLoop(strategies, idx + 1, started, store, v, p)
    ELSE SequentialTry(strategies[idx], p,
                       RunStrategy(strategies[idx], store, v, p),
                       SequentialLoop(strategies, idx + 1, started, store, v, p))

SequentialSolver_solve(started, store, v, p) ==
    SequentialLoop(SequentialStrategies(p), 1, started, store, v, p)

HybridTry(name, p, result, rest) ==
    IF result.found /\ _validate_solution(p, result.path)
    THEN MetaFound(result, name) ELSE rest

RECURSIVE HybridLoop(_, _, _, _, _, _)
HybridLoop(strategies, idx, started, store, v, p) ==
    IF idx > Len(strategies) THEN MetaNone
    ELSE IF idx > started THEN MetaNone
    ELSE HybridTry(strategies[idx], p,
                   RunStrategy(strategies[idx], store, v, p),
                   HybridLoop(strategies, idx + 1, started, store, v, p))

HybridSolver_solve(started, store, v, p) ==
    HybridLoop(HybridStrategies(p), 1, started, store, v, p)

(***************************************************************************)
(* solvers/governor.py: GovernorSolver                                     *)
(***************************************************************************)
_analyze_position(p) ==
    LET moves_count == Len(get_moves(p))
    IN  [peg_count |-> peg_count(p),
         moves_count |-> moves_count,
         is_easy |-> peg_count(p) < 10 /\ moves_count > 3,
         is_medium |-> 10 <= peg_count(p) /\ peg_count(p) <= 20,
         is_hard |-> peg_count(p) > 20 \/ moves_count < 2]

\* mobility = moves_count / max(peg_count, 1) > 1.5
HighMobility(analysis) ==
    2 * analysis.moves_count
       > 3 * (IF analysis.peg_count > 1 THEN analysis.peg_count ELSE 1)

Beam(name, width) == [name |-> name, engine |-> "beam", beam_width |-> width]

\* heuristics.pattern_db defines no PATTERN_DB_PATH: the import fails and
\* Pattern A* is never chosen
_choose_solver(analysis) ==
    IF analysis.peg_count < 10 /\ ~ analysis.is_hard
    THEN [name |-> "DFS", engine |-> "dfs", beam_width |-> 0]
    ELSE IF HighMobility(analysis) THEN Beam("Beam Search", 300)
    ELSE IF analysis.is_medium THEN Beam("Beam Search", 250)
    ELSE IF analysis.is_hard
    THEN (IF analysis.peg_count > 25
          THEN [name |-> "IDA*", engine |-> "ida_star", beam_width |-> 0]
          ELSE Beam("Beam Search (wide)", 400))
    ELSE Beam("Beam Search", IF analysis.peg_count > 25 THEN 300 ELSE 200)

_try_fallbacks_list(analysis, failed_solver) ==
    Opt(failed_solver # "DFS" /\ analysis.peg_count < 15,
        [name |-> "DFS", engine |-> "dfs", beam_width |-> 0])
     \o Opt(failed_solver \notin {"Beam Search", "Beam Search (wide)"},
            Beam("Beam Search", 300))
     \o Opt(failed_solver # "IDA*",
            [name |-> "IDA*", engine |-> "ida_star", beam_width |-> 0])

RunChosen(chosen, v, p) ==
    CASE chosen.engine = "dfs" ->
            Listed(DFSSolver_solve(DFSDefaults, p))
      [] chosen.engine = "beam" ->
            BeamSolver_solve([beam_width |-> chosen.beam_width,
                              max_depth |-> BeamDefaultDepth,
                              use_symmetry |-> TRUE], p)
      [] chosen.engine = "ida_star" -> IDAStarSolver_solve(IDAStarDefaultDepth, v, p)

\* _solve_with_timeout: the worker's result when it ends within the join
\* timeout, None when the thread is still alive
_solve_with_timeout(chosen, v, p, outcome) ==
    IF outcome = "in_time" THEN RunChosen(chosen, v, p) ELSE None

\* clock[i] tells how the i-th engine slot meets the time budget: the
\* overall timeout is seen passed before it starts ("deadline"), it is
\* started and ends within its own timeout ("in_time"), or does not ("slow")
Outcomes == {"in_time", "slow", "deadline"}

MaxSlots == 3

\* "if solution: return solution", with no check of the list
GovernorTry(name, solution, rest) ==
    IF Truthy(solution) THEN MetaFound(solution, name) ELSE rest

RECURSIVE _try_fallbacks(_, _, _, _, _)
_try_fallbacks(fallbacks, i, clock, v, p) ==
    IF i > Len(fallbacks) THEN MetaNone
    ELSE IF \E j \in 1 .. (i + 1) : clock[j] = "deadline" THEN MetaNone
    ELSE GovernorTry(fallbacks[i].name,
                     _solve_with_timeout(fallbacks[i], v, p, clock[i + 1]),
                     _try_fallbacks(fallbacks, i + 1, clock, v, p))

\* the chosen solver, then the fallbacks
GovernorRun(chosen, fallbacks, clock, v, p) ==
    IF clock[1] = "deadline" THEN _try_fallbacks(fallbacks, 1, clock, v, p)
    ELSE GovernorTry(chosen.name,
                     _solve_with_timeout(chosen, v, p, clock[1]),
                     _try_fallbacks(fallbacks, 1, clock, v, p))

GovernorChoice(analysis, chosen, clock, v, p) ==
    GovernorRun(chosen, _try_fallbacks_list(analysis, chosen.name), clock, v, p)

GovernorSolver_solve(clock, store, v, p) ==
    GovernorTry("Lookup", LookupSolver_solve(FALSE, store, v, p).res,
                GovernorChoice(_analyze_position(p),
                               _choose_solver(_analyze_position(p)), clock, v, p))

(***************************************************************************)
(* Requests to the meta-solvers and to the lookup engine, one after the    *)
(* other, on one solution store                                            *)
(***************************************************************************)
MaxMetaPegs == 3

MaxStored == 1

MetaArm == {2, 3, 4, 9, 10, 11}

MetaStrip == {8, 9, 10}

MetaBoards ==
    { <<VALID_MASK, p>> : p \in SubsetsUpTo(MetaArm, MaxMetaPegs) }
       \cup { b \in (SUBSET MetaStrip) \X (SUBSET MetaStrip) : b[2] \subseteq b[1] }

InitMeta ==
    /\ \E b \in MetaBoards : valid = b[1] /\ pegs = b[2]
    /\ pc = "ready"
    /\ out = Idle
    /\ db = EmptyStore

MetaOut(name, r) ==
    [op |-> "meta", solver |-> name,
     res |-> [found |-> r.found, path |-> r.path], engine |-> r.engine]

SolveSequential ==
    /\ pc = "ready"
    /\ \E started \in 0 .. Len(SequentialStrategies(pegs)) :
          out' = MetaOut("sequential", SequentialSolver_solve(started, db, valid, pegs))
    /\ pc' = "done"
    /\ UNCHANGED <<valid, pegs, db>>

SolveHybrid ==
    /\ pc = "ready"
    /\ \E started \in 0 .. Len(HybridStrategies(pegs)) :
          out' = MetaOut("hybrid", HybridSolver_solve(started, db, valid, pegs))
    /\ pc' = "done"
    /\ UNCHANGED <<valid, pegs, db>>

SolveGovernor ==
    /\ pc = "ready"
    /\ \E clock \in [1 .. MaxSlots -> Outcomes] :
          out' = MetaOut("governor", GovernorSolver_solve(clock, db, valid, pegs))
    /\ pc' = "done"
    /\ UNCHANGED <<valid, pegs, db>>

\* the lookup engine with its fallback, which writes the store
SolveLookup ==
    /\ pc = "ready"
    /\ Cardinality(DOMAIN db) < MaxStored
    /\ LET r == LookupSolver_solve(TRUE, db, valid, pegs)
       IN  /\ out' = [op |-> "solve", solver |-> "lookup", res |-> r.res, memo |-> {}]
           /\ db' = r.db
    /\ pc' = "done"
    /\ UNCHANGED <<valid, pegs>>

\* the next request, for another board
NextRequest ==
    /\ pc = "done"
    /\ \E b \in MetaBoards : valid' = b[1] /\ pegs' = b[2]
    /\ pc' = "ready"
    /\ out' = Idle
    /\ UNCHANGED db

NextMeta ==
    SolveSequential \/ SolveHybrid \/ SolveGovernor \/ SolveLookup \/ NextRequest

SpecMeta == InitMeta /\ [][NextMeta]_vars

(***************************************************************************)
(* solvers/bidirectional.py: BidirectionalSolver                           *)
(***************************************************************************)
\* visited[key] = path
DictSet(visited, new_key, path) ==
    [key \in DOMAIN visited \cup {new_key} |->
        IF key = new_key THEN path ELSE visited[key]]

\* list(reversed(path))
Reversed(path) == [i \in 1 .. Len(path) |-> path[Len(path) + 1 - i]]

StepResult(result, queue, visited) ==
    [result |-> result, queue |-> queue, visited |-> visited]

\* the loop of _forward_step over the moves of the node taken from the queue
RECURSIVE Forward_loop(_, _, _, _, _, _, _, _)
Forward_loop(current, path, moves, i, queue, forward_visited, backward_visited, use_any_solved) ==
    IF i > Len(moves) THEN StepResult(None, queue, forward_visited)
    ELSE LET new_board == BitBoard(apply_move(current, moves[i]))
             new_path == Append(path, moves[i])
         IN  IF use_any_solved /\ peg_count(new_board.pegs) = 1
             THEN StepResult(Found(new_path), queue, forward_visited)
             ELSE IF new_board.pegs \in DOMAIN backward_visited
             THEN StepResult(Found(new_path \o Reversed(backward_visited[new_board.pegs])),
                             queue, forward_visited)
             ELSE IF new_board.pegs \notin DOMAIN forward_visited
             THEN Forward_loop(current, path, moves, i + 1,
                               Append(queue, [pegs |-> new_board.pegs, path |-> new_path]),
                               DictSet(forward_visited, new_board.pegs, new_path),
                               backward_visited, use_any_solved)
             ELSE Forward_loop(current, path, moves, i + 1, queue, forward_visited,
                               backward_visited, use_any_solved)

_forward_step(queue, forward_visited, backward_visited, use_any_solved) ==
    Forward_loop(Head(queue).pegs, Head(queue).path, get_moves(Head(queue).pegs), 1,
                 Tail(queue), forward_visited, backward_visited, use_any_solved)

\* the four steps of the backward loop, (0, 1), (0, -1), (1, 0), (-1, 0),
\* as dr * 7 + dc
ReverseSteps == <<1, -1, 7, -7>>

\* _reverse_move: hole hole peg becomes peg peg hole; None when a cell is not
\* a cell of the English cross or does not hold what it should
_reverse_move(p, r, d) ==
    LET pos1 == r + d
        pos2 == r + 2 * d
    IN  IF pos1 \notin ENGLISH_VALID_POSITIONS \/ pos2 \notin ENGLISH_VALID_POSITIONS
        THEN [made |-> FALSE, board |-> BitBoard(p)]
        ELSE IF r \in p \/ pos1 \in p \/ pos2 \notin p
        THEN [made |-> FALSE, board |-> BitBoard(p)]
        ELSE [made |-> TRUE, board |-> BitBoard(Xor(p \cup {r} \cup {pos1}, {pos2}))]

\* the pairs (cell, step) of the two loops of _backward_step, numbered in
\* the order of the loops
ReversePos(k) == EnglishOrder[(k \div Len(ReverseSteps)) + 1]

ReverseStep(k) == ReverseSteps[(k % Len(ReverseSteps)) + 1]

RECURSIVE Ascending(_)
Ascending(S) ==
    IF S = {} THEN <<>>
    ELSE LET least == CHOOSE x \in S : \A y \in S : x <= y
         IN  <<least>> \o Ascending(S \ {least})

\* the pairs at which the loop body does not "continue": the cell is a hole
\* and _reverse_move returns a board
ReversePairs(current) ==
    Ascending({ k \in 0 .. (Len(EnglishOrder) * Len(ReverseSteps) - 1) :
                  /\ ReversePos(k) \notin current
                  /\ _reverse_move(current, ReversePos(k), ReverseStep(k)).made })

RECURSIVE Backward_loop(_, _, _, _, _, _, _, _)
Backward_loop(current, path, pairs, i, queue, backward_visited, forward_visited, use_any_solved) ==
    IF i > Len(pairs) THEN StepResult(None, queue, backward_visited)
    ELSE LET pos == ReversePos(pairs[i])
             d == ReverseStep(pairs[i])
             new_board == _reverse_move(current, pos, d).board
             move == <<pos + 2 * d, pos + d, pos>>
             new_path == Append(path, move)
         IN  IF use_any_solved /\ peg_count(new_board.pegs) = 1
             THEN StepResult(Found(new_path), queue, backward_visited)
             ELSE IF new_board.pegs \in DOMAIN forward_visited
             THEN StepResult(Found(forward_visited[new_board.pegs] \o Reversed(new_path)),
                             queue, backward_visited)
             ELSE IF new_board.pegs \notin DOMAIN backward_visited
             THEN Backward_loop(current, path, pairs, i + 1,
                                Append(queue, [pegs |-> new_board.pegs, path |-> new_path]),
                                DictSet(backward_visited, new_board.pegs, new_path),
                                forward_visited, use_any_solved)
             ELSE Backward_loop(current, path, pairs, i + 1, queue, backward_visited,
                                forward_visited, use_any_solved)

_backward_step(queue, backward_visited, forward_visited, use_any_solved) ==
    IF use_any_solved /\ peg_count(Head(queue).pegs) = 1
    THEN StepResult(Found(Head(queue).path), Tail(queue), backward_visited)
    ELSE Backward_loop(Head(queue).pegs, Head(queue).path,
                       ReversePairs(Head(queue).pegs), 1, Tail(queue),
                       backward_visited, forward_visited, use_any_solved)

\* the while loop of solve; "if result:" lets an empty list pass as None
RECURSIVE Bidirectional_loop(_, _, _, _, _, _, _)
RECURSIVE Bidirectional_backward(_, _, _, _, _, _)
RECURSIVE Bidirectional_next(_, _, _, _, _)
Bidirectional_loop(iterations, forward_queue, forward_visited, backward_queue, backward_visited, use_any_solved, max_iterations) ==
    IF forward_queue = <<>> /\ backward_queue = <<>> THEN None
    ELSE IF iterations + 1 > max_iterations THEN None
    ELSE Bidirectional_backward(
             iterations + 1,
             IF forward_queue # <<>>
             THEN _forward_step(forward_queue, forward_visited, backward_visited,
                                use_any_solved)
             ELSE StepResult(None, forward_queue, forward_visited),
             backward_queue, backward_visited, use_any_solved, max_iterations)

Bidirectional_backward(iterations, forward, backward_queue, backward_visited, use_any_solved, max_iterations) ==
    IF Truthy(forward.result) THEN forward.result
    ELSE Bidirectional_next(
             iterations, forward,
             IF backward_queue # <<>>
             THEN _backward_step(backward_queue, backward_visited, forward.visited,
                                 use_any_solved)
             ELSE StepResult(None, backward_queue, backward_visited),
             use_any_solved, max_iterations)

Bidirectional_next(iterations, forward, backward, use_any_solved, max_iterations) ==
    IF Truthy(backward.result) THEN backward.result
    ELSE Bidirectional_loop(iterations, forward.queue, forward.visited,
                            backward.queue, backward.visited,
                            use_any_solved, max_iterations)

\* target = None: "target is None" makes the backward search start from
\* BitBoard(0)
NoTarget == [given |-> FALSE, pegs |-> {}]

Target(p) == [given |-> TRUE, pegs |-> p]

BidirectionalSolver_solve(max_iterations, p, target) ==
    LET start_target == IF target.given THEN target.pegs ELSE BitBoard({}).pegs
    IN  Bidirectional_loop(0,
                           <<[pegs |-> p, path |-> <<>>]>>,
                           [key \in {p} |-> <<>>],
                           <<[pegs |-> start_target, path |-> <<>>]>>,
                           [key \in {start_target} |-> <<>>],
                           ~ target.given, max_iterations)

(***************************************************************************)
(* Bidirectional search run on boards of a corner of the cross and of the  *)
(* strip, towards any one-peg board or towards a given one                 *)
(***************************************************************************)
MaxBidirPegs == 3

MaxIterations == 3

BidirCells == {2, 3, 4, 9, 10, 11, 16, 17, 18}

BidirBoards ==
    { <<VALID_MASK, p>> : p \in SubsetsUpTo(BidirCells, MaxBidirPegs) }
       \cup { b \in (SUBSET MetaStrip) \X (SUBSET MetaStrip) : b[2] \subseteq b[1] }

InitBidirectional ==
    /\ \E b \in BidirBoards : valid = b[1] /\ pegs = b[2]
    /\ pc = "ready"
    /\ out = Idle
    /\ db = EmptyStore

SolveBidirectional ==
    /\ pc = "ready"
    /\ \E target \in {NoTarget} \cup { Target({c}) : c \in BidirCells \cap valid },
          max_iterations \in 1 .. MaxIterations :
          out' = [op |-> "bidirectional", target |-> target,
                  max_iterations |-> max_iterations,
                  res |-> BidirectionalSolver_solve(max_iterations, pegs, target)]
    /\ pc' = "done"
    /\ UNCHANGED <<valid, pegs, db>>

NextBidirectional == SolveBidirectional

SpecBidirectional == InitBidirectional /\ [][NextBidirectional]_vars

(***************************************************************************)
(* solvers/beam.py, solvers/parallel_beam.py: the beam of every layer      *)
(***************************************************************************)
\* candidates[:beam_width] of the sorted candidate list
BeamKeep(cfg, candidates) ==
    SubSeq(Items(SortByKey(candidates)), 1,
           IF Len(candidates) < cfg.beam_width THEN Len(candidates) ELSE cfg.beam_width)

\* the values the variable beam of BeamSolver.solve takes: the start beam
\* and the beam assigned at the end of each iteration of the depth loop
RECURSIVE BeamLayers(_, _, _, _)
BeamLayers(cfg, beam, visited, depth) ==
    <<beam>> \o
    (IF depth >= cfg.max_depth \/ beam = <<>> THEN <<>>
     ELSE IF BeamNodes(cfg, beam, 1, visited, <<>>).found THEN <<>>
     ELSE BeamLayers(cfg, BeamKeep(cfg, BeamNodes(cfg, beam, 1, visited, <<>>).candidates),
                     BeamNodes(cfg, beam, 1, visited, <<>>).visited, depth + 1))

\* _evaluate_board: the score a worker process gives to BitBoard(pegs)
_evaluate_board(p) ==
    peg_count(BitBoard(p).pegs) * 10
      + SumOver(CenterDist, BitBoard(p).pegs \cap ENGLISH_VALID_POSITIONS)
      - Len(get_moves(BitBoard(p).pegs)) * 2
      + (IF peg_count(BitBoard(p).pegs) > 15
         THEN (IF pagoda_value(BitBoard(p).pegs) < PAGODA_WEIGHTS[CENTER_POS]
               THEN 1000 ELSE 0)
         ELSE (IF pagoda_value(BitBoard(p).pegs) < min_pagoda THEN 1000 ELSE 0))

\* _parallel_expand, the loop over the moves of one beam node: the tasks
\* are <<new_board.pegs, path + [move]>>
RECURSIVE ParallelMoves(_, _, _, _, _, _, _)
ParallelMoves(cfg, current, path, moves, j, visited, tasks) ==
    IF j > Len(moves) THEN [visited |-> visited, tasks |-> tasks]
    ELSE IF _get_key(cfg.use_symmetry, apply_move(current, moves[j])) \in visited
    THEN ParallelMoves(cfg, current, path, moves, j + 1, visited, tasks)
    ELSE ParallelMoves(cfg, current, path, moves, j + 1,
                       visited \cup {_get_key(cfg.use_symmetry,
                                              apply_move(current, moves[j]))},
                       Append(tasks, <<apply_move(current, moves[j]),
                                       Append(path, moves[j])>>))

\* _parallel_expand, the loop over the beam
RECURSIVE ParallelTasks(_, _, _, _, _)
ParallelTasksNext(cfg, beam, i, r) == ParallelTasks(cfg, beam, i + 1, r.visited, r.tasks)

ParallelTasks(cfg, beam, i, visited, tasks) ==
    IF i > Len(beam) THEN [visited |-> visited, tasks |-> tasks]
    ELSE ParallelTasksNext(cfg, beam, i,
                           ParallelMoves(cfg, beam[i][1], beam[i][2],
                                         get_moves(beam[i][1]), 1, visited, tasks))

\* as_completed(futures): the futures are yielded in the order in which
\* the worker processes finish, any order of the tasks
RECURSIVE as_completed(_)
as_completed(S) ==
    IF S = {} THEN {<<>>}
    ELSE UNION { { <<x>> \o t : t \in as_completed(S \ {x}) } : x \in S }

\* the candidate lists _parallel_expand can return: (score, BitBoard(pegs),
\* path) of each task, in an order of completion
_parallel_expand(tasks) ==
    { [i \in 1 .. Len(tasks) |->
          <<_evaluate_board(tasks[order[i]][1]),
            <<BitBoard(tasks[order[i]][1]).pegs, tasks[order[i]][2]>>>>] :
      order \in as_completed(1 .. Len(tasks)) }

\* for current, path in beam[:10]: the first node with one peg
RECURSIVE ParallelTop(_, _)
ParallelTop(beam, i) ==
    IF i > Len(beam) \/ i > 10 THEN None
    ELSE IF peg_count(beam[i][1]) = 1 THEN [found |-> TRUE, path |-> beam[i][2]]
    ELSE ParallelTop(beam, i + 1)

\* ParallelBeamSolver.solve: the runs it can make, each the result with the
\* values the variable beam took
RECURSIVE ParallelBeamDepth(_, _, _, _, _)
RECURSIVE ParallelBeamLayer(_, _, _, _)
RECURSIVE ParallelBeamKept(_, _, _, _, _)
ParallelBeamDepth(cfg, beam, visited, depth, beams) ==
    IF depth >= cfg.max_depth \/ beam = <<>> THEN {[res |-> None, beams |-> beams]}
    ELSE ParallelBeamLayer(cfg, ParallelTasks(cfg, beam, 1, visited, <<>>), depth, beams)

ParallelBeamLayer(cfg, r, depth, beams) ==
    IF r.tasks = <<>> THEN {[res |-> None, beams |-> beams]}
    ELSE UNION { ParallelBeamKept(cfg, kept, r.visited, depth, beams) :
                 kept \in { BeamKeep(cfg, candidates) :
                            candidates \in _parallel_expand(r.tasks) } }

ParallelBeamKept(cfg, kept, visited, depth, beams) ==
    IF ParallelTop(kept, 1).found
    THEN {[res |-> ParallelTop(kept, 1), beams |-> Append(beams, kept)]}
    ELSE ParallelBeamDepth(cfg, kept, visited, depth + 1, Append(beams, kept))

ParallelBeamSolver_solve(cfg, p) ==
    ParallelBeamDepth(cfg, <<<<p, <<>>>>>>, {_get_key(cfg.use_symmetry, p)}, 0,
                      <<<<<<p, <<>>>>>>>>)

MaxBeamPegs == 3

MaxBeamWidth == 2

MaxBeamDepth == 2

BeamCells == {2, 3, 4, 9, 10, 11, 16, 17, 18}

BeamBoards == SubsetsUpTo(BeamCells, MaxBeamPegs)

BeamConfigs ==
    [beam_width : 1 .. MaxBeamWidth, max_depth : 1 .. MaxBeamDepth, use_symmetry : BOOLEAN]

InitBeam ==
    /\ valid = VALID_MASK
    /\ pegs \in BeamBoards
    /\ pc = "ready"
    /\ out = Idle
    /\ db = EmptyStore

BeamRun(name, cfg, res, beams) ==
    [op |-> name, cfg |-> cfg, res |-> res, beams |-> beams]

SolveBeamLayers ==
    /\ pc = "ready"
    /\ \E cfg \in BeamConfigs :
          out' = BeamRun("beam_layers", cfg, BeamSolver_solve(cfg, pegs),
                         BeamLayers(cfg, <<<<pegs, <<>>>>>>,
                                    {_get_key(cfg.use_symmetry, pegs)}, 0))
    /\ pc' = "done"
    /\ UNCHANGED <<valid, pegs, db>>

SolveParallelBeam ==
    /\ pc = "ready"
    /\ \E cfg \in BeamConfigs :
          \E run \in ParallelBeamSolver_solve(cfg, pegs) :
              out' = BeamRun("parallel_beam", cfg, run.res, run.beams)
    /\ pc' = "done"
    /\ UNCHANGED <<valid, pegs, db>>

NextBeam == SolveBeamLayers \/ SolveParallelBeam

SpecBeam == InitBeam /\ [][NextBeam]_vars

(***************************************************************************)
(* solvers/parallel_simple.py: ParallelSimpleSolver (threads running       *)
(* SimpleDFSSolver); solvers/parallel.py: ParallelSolver (processes        *)
(* running DFSSolver)                                                      *)
(***************************************************************************)
\* stats.nodes_visited of SimpleDFSSolver: the number of calls of _dfs
RECURSIVE SimpleDFSSolver_nodes_visited(_)
RECURSIVE SimpleDFSSolver_loop_visited(_, _, _)
SimpleDFSSolver_nodes_visited(p) ==
    IF peg_count(p) = 1 THEN 1
    ELSE 1 + SimpleDFSSolver_loop_visited(p, get_moves(p), 1)

SimpleDFSSolver_loop_visited(p, moves, i) ==
    IF i > Len(moves) THEN 0
    ELSE SimpleDFSSolver_nodes_visited(apply_move(p, moves[i]))
         + (IF SimpleDFSSolver_dfs(apply_move(p, moves[i]), <<>>).found THEN 0
            ELSE SimpleDFSSolver_loop_visited(p, moves, i + 1))

\* stats.nodes_visited of DFSSolver: the number of calls of _dfs, with the
\* memo they leave
Visited(found, memo, nodes_visited) ==
    [found |-> found, memo |-> memo, nodes_visited |-> nodes_visited]

AndThis(r, key) ==
    IF r.found THEN Visited(TRUE, r.memo, r.nodes_visited + 1)
    ELSE Visited(FALSE, r.memo \cup {key}, r.nodes_visited + 1)

RECURSIVE DFSSolver_visit(_, _, _)
RECURSIVE DFSSolver_loop_visit(_, _, _, _, _)
RECURSIVE DFSSolver_next_visit(_, _, _, _, _)
DFSSolver_visit(cfg, p, memo) ==
    IF peg_count(p) = 1 THEN Visited(TRUE, memo, 1)
    ELSE IF _get_key(cfg.use_symmetry, p) \in memo THEN Visited(FALSE, memo, 1)
    ELSE IF cfg.use_pagoda /\ pagoda_value(p) < PAGODA_WEIGHTS[CENTER_POS]
    THEN Visited(FALSE, memo \cup {_get_key(cfg.use_symmetry, p)}, 1)
    ELSE IF get_moves(p) = <<>>
    THEN Visited(FALSE, memo \cup {_get_key(cfg.use_symmetry, p)}, 1)
    ELSE AndThis(DFSSolver_loop_visit(cfg, p,
                     IF cfg.sort_moves THEN DFSSolver_sort_moves(get_moves(p))
                     ELSE get_moves(p), 1, memo),
                 _get_key(cfg.use_symmetry, p))

DFSSolver_loop_visit(cfg, p, moves, i, memo) ==
    IF i > Len(moves) THEN Visited(FALSE, memo, 0)
    ELSE DFSSolver_next_visit(cfg, p, moves, i,
                              DFSSolver_visit(cfg, apply_move(p, moves[i]), memo))

DFSSolver_next_visit(cfg, p, moves, i, r) ==
    IF r.found THEN r
    ELSE Visited(DFSSolver_loop_visit(cfg, p, moves, i + 1, r.memo).found,
                 DFSSolver_loop_visit(cfg, p, moves, i + 1, r.memo).memo,
                 r.nodes_visited
                   + DFSSolver_loop_visit(cfg, p, moves, i + 1, r.memo).nodes_visited)

\* [first_move] + result
WithFirstMove(first_move, r) ==
    IF r.found THEN [found |-> TRUE, path |-> <<first_move>> \o r.path] ELSE None

\* what _solve_subtree of the solver computes for first_move: its result
\* and the number of _dfs calls it takes
SubtreeResult(solver, p, first_move) ==
    IF solver = "parallel_simple"
    THEN WithFirstMove(first_move, SimpleDFSSolver_solve(apply_move(p, first_move)))
    ELSE WithFirstMove(first_move,
             [found |-> DFSSolver_solve(DFSDefaults,
                            apply_move(BitBoard(p).pegs, first_move)).found,
              path |-> DFSSolver_solve(DFSDefaults,
                            apply_move(BitBoard(p).pegs, first_move)).path])

SubtreeCalls(solver, p, first_move) ==
    IF solver = "parallel_simple"
    THEN SimpleDFSSolver_nodes_visited(apply_move(p, first_move))
    ELSE DFSSolver_visit(DFSDefaults, apply_move(BitBoard(p).pegs, first_move),
                         {}).nodes_visited

\* a submitted future: pending, running, done or cancelled; calls counts
\* the _dfs calls its worker has made, late those it made after solve had
\* received a solution from another worker; taken says that as_completed
\* has yielded it
Future(first_move) ==
    [move |-> first_move, status |-> "pending", calls |-> 0, late |-> 0,
     res |-> None, taken |-> FALSE]

ParallelRun(solver, num_workers, futures, solution_found, result) ==
    [op |-> "parallel", solver |-> solver, num_workers |-> num_workers,
     futures |-> futures, solution_found |-> solution_found, res |-> result]

Running(futures) == { i \in 1 .. Len(futures) : futures[i].status = "running" }

MaxParallelPegs == 4

MaxWorkers == 2

ParallelCells == {2, 3, 4, 9, 10, 11}

ParallelBoards == SubsetsUpTo(ParallelCells, MaxParallelPegs)

InitParallel ==
    /\ valid = VALID_MASK
    /\ pegs \in ParallelBoards
    /\ pc = "ready"
    /\ out = Idle
    /\ db = EmptyStore

\* solve up to the end of the submissions: no first move, return None
ParallelSubmit ==
    /\ pc = "ready"
    /\ \E solver \in {"parallel_simple", "parallel"}, num_workers \in 1 .. MaxWorkers :
          IF get_moves(pegs) = <<>>
          THEN /\ out' = ParallelRun(solver, num_workers, <<>>, FALSE, None)
               /\ pc' = "done"
          ELSE /\ out' = ParallelRun(solver, num_workers,
                             [i \in 1 .. Len(get_moves(pegs)) |->
                                  Future(get_moves(pegs)[i])],
                             FALSE, None)
               /\ pc' = "waiting"
    /\ UNCHANGED <<valid, pegs, db>>

\* a free worker of the pool takes the oldest pending future;
\* ParallelSimpleSolver._solve_subtree returns None at once when
\* _solution_found is set
WorkerStart ==
    /\ pc \in {"waiting", "exiting"}
    /\ \E i \in 1 .. Len(out.futures) :
          /\ out.futures[i].status = "pending"
          /\ \A j \in 1 .. i - 1 : out.futures[j].status # "pending"
          /\ Cardinality(Running(out.futures)) < out.num_workers
          /\ out' = [out EXCEPT !.futures[i].status =
                        IF out.solver = "parallel_simple" /\ out.solution_found
                        THEN "done" ELSE "running"]
    /\ UNCHANGED <<valid, pegs, pc, db>>

\* one call of _dfs by a running worker; after the last call of its search
\* _solve_subtree returns and the future is done
WorkerCall ==
    /\ pc \in {"waiting", "exiting"}
    /\ \E i \in Running(out.futures) :
          out' = [out EXCEPT
                    !.futures[i].calls = @ + 1,
                    !.futures[i].late = IF pc = "exiting" THEN @ + 1 ELSE @,
                    !.futures[i].status =
                        IF out.futures[i].calls + 1
                             = SubtreeCalls(out.solver, pegs, out.futures[i].move)
                        THEN "done" ELSE "running",
                    !.futures[i].res =
                        IF out.futures[i].calls + 1
                             = SubtreeCalls(out.solver, pegs, out.futures[i].move)
                        THEN SubtreeResult(out.solver, pegs, out.futures[i].move)
                        ELSE None]
    /\ UNCHANGED <<valid, pegs, pc, db>>

\* f.cancel() on every future: a pending future is cancelled
Cancelled(futures) ==
    [i \in 1 .. Len(futures) |->
        IF futures[i].status = "pending"
        THEN [futures[i] EXCEPT !.status = "cancelled"] ELSE futures[i]]

\* as_completed yields a finished future: a solution is kept and solve
\* goes to its return (ParallelSimpleSolver sets _solution_found,
\* ParallelSolver cancels the futures)
MainTake ==
    /\ pc = "waiting"
    /\ \E i \in 1 .. Len(out.futures) :
          /\ out.futures[i].status = "done"
          /\ ~ out.futures[i].taken
          /\ IF out.futures[i].res.found
             THEN /\ out' = [out EXCEPT
                               !.futures = IF out.solver = "parallel"
                                           THEN Cancelled([out.futures EXCEPT ![i].taken = TRUE])
                                           ELSE [out.futures EXCEPT ![i].taken = TRUE],
                               !.solution_found = (out.solver = "parallel_simple"),
                               !.res = out.futures[i].res]
                  /\ pc' = "exiting"
             ELSE /\ out' = [out EXCEPT !.futures[i].taken = TRUE]
                  /\ pc' = IF \A j \in 1 .. Len(out.futures) :
                                  j = i \/ out.futures[j].taken
                           THEN "exiting" ELSE "waiting"
    /\ UNCHANGED <<valid, pegs, db>>

\* the end of the with block: executor.shutdown(wait=True) returns when no
\* future is pending or running, and solve returns
MainReturn ==
    /\ pc = "exiting"
    /\ \A i \in 1 .. Len(out.futures) : out.futures[i].status \in {"done", "cancelled"}
    /\ pc' = "done"
    /\ UNCHANGED <<valid, pegs, out, db>>

NextParallel == ParallelSubmit \/ WorkerStart \/ WorkerCall \/ MainTake \/ MainReturn

SpecParallel == InitParallel /\ [][NextParallel]_vars

(***************************************************************************)
(* The solution store: LookupSolver.add_solution, the fallback of          *)
(* LookupSolver.solve, and the request handlers of web/app.py              *)
(***************************************************************************)
\* LookupSolver(...).add_solution(board, solution): the store file after it
LookupSolver_add_solution(store, v, p, solution) ==
    StoreSolution(_load_solutions(store), LookupKey(v, p), solution)

\* the request limits of calculate_solver_limits(False)
request_max_depth == 50

\* solvers[solver_type]().solve(board) of the handlers, board = BitBoard(pegs_bits)
RequestSolve(solver_type, p) ==
    IF solver_type = "beam"
    THEN BeamSolver_solve([beam_width |-> 500, max_depth |-> request_max_depth,
                           use_symmetry |-> TRUE], BitBoard(p).pegs)
    ELSE [found |-> DFSSolver_solve([use_symmetry |-> TRUE, sort_moves |-> TRUE,
                                     use_pagoda |-> FALSE], BitBoard(p).pegs).found,
          path |-> DFSSolver_solve([use_symmetry |-> TRUE, sort_moves |-> TRUE,
                                    use_pagoda |-> FALSE], BitBoard(p).pegs).path]

\* solve_stream saves "if solution:", solve saves unless solution is None
RequestSaves(handler, solution) ==
    IF handler = "solve_stream" THEN Truthy(solution) ELSE solution.found

\* the request is answered with an error before any solver runs
RequestRejected(p) ==
    \/ p = {}
    \/ pagoda_value(BitBoard(p).pegs) < min_pagoda

\* the first insertion of a list that verify_bitboard_solution accepts for
\* the board it is inserted under (a record of the run, not of the program)
NoAccepted == [given |-> FALSE, valid |-> {}, pegs |-> {}, len |-> 0]

Accepts(accepted, v, p, solution) ==
    IF ~ accepted.given /\ verify_bitboard_solution(p, v, solution, FALSE)
    THEN [given |-> TRUE, valid |-> v, pegs |-> p, len |-> Len(solution)]
    ELSE accepted

StoreOut(name, res, stored, accepted) ==
    [op |-> name, res |-> res, stored |-> stored, accepted |-> accepted]

MaxStoreLen == 2

StoreMoves == {<<2, 3, 4>>, <<4, 3, 2>>}

StoreBoards ==
    { <<VALID_MASK, p>> : p \in SUBSET {2, 3, 4} }
       \cup { <<MetaStrip, p>> : p \in SUBSET MetaStrip }

\* the store has room for the key of the board
HasRoom(store, v, p) ==
    LookupKey(v, p) \in DOMAIN store \/ Cardinality(DOMAIN store) < MaxStored

InitStore ==
    /\ \E b \in StoreBoards : valid = b[1] /\ pegs = b[2]
    /\ pc = "ready"
    /\ out = StoreOut("none", None, FALSE, NoAccepted)
    /\ db = EmptyStore

\* an explicit add_solution(board, solution) by a caller
StoreAdd ==
    /\ pc = "ready"
    /\ HasRoom(db, valid, pegs)
    /\ \E solution \in SeqsUpTo(StoreMoves, MaxStoreLen) :
          /\ db' = LookupSolver_add_solution(db, valid, pegs, solution)
          /\ out' = StoreOut("add_solution", Found(solution), TRUE,
                             Accepts(out.accepted, valid, pegs, solution))
    /\ pc' = "done"
    /\ UNCHANGED <<valid, pegs>>

StoreLookupOut(name, r, store, accepted, v, p) ==
    StoreOut(name, r.res, r.db # store,
             IF r.db # store THEN Accepts(accepted, v, p, r.res.path) ELSE accepted)

\* LookupSolver(use_fallback=...).solve(board): a lookup, and with the
\* fallback an insertion of what Beam Search finds
StoreLookup ==
    /\ pc = "ready"
    /\ HasRoom(db, valid, pegs)
    /\ \E use_fallback \in BOOLEAN :
          /\ out' = StoreLookupOut(IF use_fallback THEN "fallback" ELSE "lookup",
                                   LookupSolver_solve(use_fallback, db, valid, pegs),
                                   db, out.accepted, valid, pegs)
          /\ db' = LookupSolver_solve(use_fallback, db, valid, pegs).db
    /\ pc' = "done"
    /\ UNCHANGED <<valid, pegs>>

StoreRequestOut(handler, solution, accepted, p) ==
    StoreOut("request", solution, RequestSaves(handler, solution),
             IF RequestSaves(handler, solution)
             THEN Accepts(accepted, BitBoard(p).valid_mask, BitBoard(p).pegs, solution.path)
             ELSE accepted)

StoreRequestDb(handler, solution, store, p) ==
    IF RequestSaves(handler, solution)
    THEN LookupSolver_add_solution(store, BitBoard(p).valid_mask, BitBoard(p).pegs,
                                   solution.path)
    ELSE store

\* a request to /api/solve-stream or /api/solve with a solver other than
\* lookup: the board is BitBoard(pegs_bits), a found solution is saved
StoreRequest ==
    /\ pc = "ready"
    /\ valid = BitBoard(pegs).valid_mask
    /\ HasRoom(db, valid, pegs)
    /\ ~ RequestRejected(pegs)
    /\ \E handler \in {"solve_stream", "solve"}, solver_type \in {"beam", "dfs"} :
          /\ out' = StoreRequestOut(handler, RequestSolve(solver_type, pegs),
                                    out.accepted, pegs)
          /\ db' = StoreRequestDb(handler, RequestSolve(solver_type, pegs), db, pegs)
    /\ pc' = "done"
    /\ UNCHANGED <<valid, pegs>>

StoreNextBoard ==
    /\ pc = "done"
    /\ \E b \in StoreBoards : valid' = b[1] /\ pegs' = b[2]
    /\ pc' = "ready"
    /\ out' = StoreOut("none", None, FALSE, out.accepted)
    /\ UNCHANGED db

NextStore == StoreAdd \/ StoreLookup \/ StoreRequest \/ StoreNextBoard

SpecStore == InitStore /\ [][NextStore]_vars

(***************************************************************************)
(* Writing the store file: LookupSolver._save_solutions,                   *)
(* peg_io/cache.py save_solutions, peg_io/cache_enhanced.py                *)
(* save_solutions_enhanced                                                 *)
(***************************************************************************)
RECURSIVE KeysInOrder(_)
KeysInOrder(S) ==
    IF S = {} THEN <<>> ELSE <<MinMask(S)>> \o KeysInOrder(S \ {MinMask(S)})

Chunk(kind, key, moves) == [kind |-> kind, key |-> key, moves |-> moves]

\* pickle.dump / json.dump of a store: the stream written to the file, an
\* opening, one piece per entry and a closing; a file holds a store only
\* when it holds the whole stream
Serialise(store) ==
    <<Chunk("open", {}, <<>>)>>
      \o [i \in 1 .. Cardinality(DOMAIN store) |->
             Chunk("entry", KeysInOrder(DOMAIN store)[i],
                   store[KeysInOrder(DOMAIN store)[i]])]
      \o <<Chunk("close", {}, <<>>)>>

WriteKeys == {{2, 3}, {9, 10}}

WriteLists == {<<<<2, 3, 4>>>>, <<<<9, 10, 11>>>>}

WriteStores == UNION { [K -> WriteLists] : K \in SUBSET WriteKeys }

\* the writer, the store it writes, the contents of the store file and of
\* the temporary file, and the store the file held before the write
Writing(writer, data, file, temp, previous) ==
    [op |-> "write", writer |-> writer, data |-> data, file |-> file,
     temp |-> temp, previous |-> previous]

InitWrite ==
    /\ valid = VALID_MASK
    /\ pegs = {}
    /\ pc = "ready"
    /\ db \in WriteStores
    /\ out = Writing("none", db, Serialise(db), <<>>, db)

\* open(path, 'wb') and open(CACHE_FILE, 'w') truncate the store file;
\* save_solutions_enhanced makes a temporary file with tempfile.mkstemp
WriteOpen ==
    /\ pc = "ready"
    /\ \E writer \in {"lookup", "cache", "cache_enhanced"}, data \in WriteStores :
          out' = Writing(writer, data,
                         IF writer = "cache_enhanced" THEN out.file ELSE <<>>,
                         <<>>, db)
    /\ pc' = "open"
    /\ UNCHANGED <<valid, pegs, db>>

\* dump writes the next piece of the stream to the file that is open
WriteChunk ==
    /\ pc = "open"
    /\ IF out.writer = "cache_enhanced"
       THEN /\ Len(out.temp) < Len(Serialise(out.data))
            /\ out' = [out EXCEPT !.temp =
                          Append(@, Serialise(out.data)[Len(out.temp) + 1])]
       ELSE /\ Len(out.file) < Len(Serialise(out.data))
            /\ out' = [out EXCEPT !.file =
                          Append(@, Serialise(out.data)[Len(out.file) + 1])]
    /\ UNCHANGED <<valid, pegs, pc, db>>

\* the end of the with block; shutil.move(temp_file, CACHE_FILE) puts the
\* temporary file in the place of the store file
WriteClose ==
    /\ pc = "open"
    /\ IF out.writer = "cache_enhanced"
       THEN /\ out.temp = Serialise(out.data)
            /\ out' = [out EXCEPT !.file = out.temp, !.temp = <<>>]
       ELSE /\ out.file = Serialise(out.data)
            /\ out' = out
    /\ db' = out.data
    /\ pc' = "done"
    /\ UNCHANGED <<valid, pegs>>

\* an error or a crash while the file is open: the except branch of
\* save_solutions_enhanced removes the temporary file, that of
\* _save_solutions logs, save_solutions has none
WriteFail ==
    /\ pc = "open"
    /\ out' = [out EXCEPT !.temp = <<>>]
    /\ pc' = "failed"
    /\ UNCHANGED <<valid, pegs, db>>

\* the next write, of a process that finds the file as it was left
WriteAgain ==
    /\ pc = "done"
    /\ pc' = "ready"
    /\ UNCHANGED <<valid, pegs, out, db>>

NextWrite == WriteOpen \/ WriteChunk \/ WriteClose \/ WriteFail \/ WriteAgain

SpecWrite == InitWrite /\ [][NextWrite]_vars

(***************************************************************************)
(* Two additions to the store at the same time: each loads the store,      *)
(* sets its entry and saves (LookupSolver(...).add_solution of the request *)
(* handlers, save_solution, save_solution_enhanced)                        *)
(***************************************************************************)
Adder(key, moves) == [pc |-> "start", key |-> key, moves |-> moves, local |-> EmptyStore]

AdderKeys == {{2, 3}, {9, 10}, {16, 17}}

\* save_solution_enhanced keeps an entry that is not longer than the new
\* list; add_solution and save_solution set the entry
AdderSet(adder, local, key, moves) ==
    IF adder = "save_solution_enhanced" /\ key \in DOMAIN local
                                        /\ Len(moves) >= Len(local[key])
    THEN local
    ELSE StoreSolution(local, key, moves)

InitAdders ==
    /\ valid = VALID_MASK
    /\ pegs = {}
    /\ pc = "ready"
    /\ db \in WriteStores
    /\ \E adder \in {"add_solution", "save_solution", "save_solution_enhanced"},
          k1 \in AdderKeys, k2 \in AdderKeys, m1 \in WriteLists, m2 \in WriteLists :
          /\ k1 # k2
          /\ out = [op |-> "adders", adder |-> adder,
                    procs |-> <<Adder(k1, m1), Adder(k2, m2)>>]

\* LookupSolver(...) in the handler, load_solutions(): the store is read
AdderLoad ==
    /\ \E i \in 1 .. 2 :
          /\ out.procs[i].pc = "start"
          /\ out' = [out EXCEPT !.procs[i].pc = "loaded",
                                !.procs[i].local = _load_solutions(db)]
    /\ UNCHANGED <<valid, pegs, pc, db>>

\* the entry is set in the loaded store and the store is saved
AdderSave ==
    /\ \E i \in 1 .. 2 :
          /\ out.procs[i].pc = "loaded"
          /\ db' = AdderSet(out.adder, out.procs[i].local,
                            out.procs[i].key, out.procs[i].moves)
          /\ out' = [out EXCEPT !.procs[i].pc = "saved"]
    /\ UNCHANGED <<valid, pegs, pc>>

NextAdders == AdderLoad \/ AdderSave

SpecAdders == InitAdders /\ [][NextAdders]_vars

(***************************************************************************)
(* SequentialSolver.solve, one step per strategy started and finished      *)
(***************************************************************************)
SequentialRun(idx, starts, late, res) ==
    [op |-> "sequential", idx |-> idx, starts |-> starts, late |-> late, res |-> res]

SequentialStores == {EmptyStore, StoreSolution(EmptyStore, {2, 3}, <<<<2, 3, 4>>>>)}

InitSequential ==
    /\ \E b \in MetaBoards : valid = b[1] /\ pegs = b[2]
    /\ pc = "ready"
    /\ out = Idle
    /\ db \in SequentialStores

\* start_time = time.time() and the list of strategies
SequentialBegin ==
    /\ pc = "ready"
    /\ out' = SequentialRun(1, <<>>, FALSE, MetaNone)
    /\ pc' = "loop"
    /\ UNCHANGED <<valid, pegs, db>>

\* the clock passes self.timeout
SequentialTimeout ==
    /\ pc \in {"loop", "running"}
    /\ ~ out.late
    /\ out' = [out EXCEPT !.late = TRUE]
    /\ UNCHANGED <<valid, pegs, pc, db>>

\* elapsed > self.timeout: continue
SequentialSkip ==
    /\ pc = "loop"
    /\ out.idx <= Len(SequentialStrategies(pegs))
    /\ out.late
    /\ out' = [out EXCEPT !.idx = @ + 1]
    /\ UNCHANGED <<valid, pegs, pc, db>>

\* result = solver_fn() is entered
SequentialStart ==
    /\ pc = "loop"
    /\ out.idx <= Len(SequentialStrategies(pegs))
    /\ ~ out.late
    /\ out' = [out EXCEPT !.starts = Append(@, SequentialStrategies(pegs)[out.idx])]
    /\ pc' = "running"
    /\ UNCHANGED <<valid, pegs, db>>

SequentialFinished(name, result) ==
    /\ out' = [out EXCEPT !.idx = IF SequentialAccepts(name, pegs, result) THEN @ ELSE @ + 1,
                          !.res = SequentialTry(name, pegs, result, MetaNone)]
    /\ pc' = IF SequentialAccepts(name, pegs, result) THEN "done" ELSE "loop"

\* solver_fn() returns: the result is returned or the loop goes on
SequentialFinish ==
    /\ pc = "running"
    /\ SequentialFinished(SequentialStrategies(pegs)[out.idx],
                          RunStrategy(SequentialStrategies(pegs)[out.idx], db, valid, pegs))
    /\ UNCHANGED <<valid, pegs, db>>

\* the list is exhausted: return None
SequentialEnd ==
    /\ pc = "loop"
    /\ out.idx > Len(SequentialStrategies(pegs))
    /\ pc' = "done"
    /\ UNCHANGED <<valid, pegs, out, db>>

SequentialNextBoard ==
    /\ pc = "done"
    /\ \E b \in MetaBoards : valid' = b[1] /\ pegs' = b[2]
    /\ pc' = "ready"
    /\ out' = Idle
    /\ UNCHANGED db

NextSequential ==
    \/ SequentialBegin \/ SequentialTimeout \/ SequentialSkip \/ SequentialStart
    \/ SequentialFinish \/ SequentialEnd \/ SequentialNextBoard

SpecSequential == InitSequential /\ [][NextSequential]_vars

(***************************************************************************)
(* GovernorSolver.solve and GovernorSolverWithProgress.solve on a clock:   *)
(* _solve_with_timeout starts the engine in a thread and joins it with a   *)
(* timeout; the thread of an engine that is not waited for any more goes   *)
(* on and ends later. Times in seconds.                                    *)
(***************************************************************************)
MaxBudget == 44

FallbackLimit == 20

PrimaryLimit == 30

LongBudget == 600

Budgets == {10, MaxBudget}

WaitBoards == {{2, 3}, {2, 3, 4}}

Least(a, b) == IF a <= b THEN a ELSE b

\* the chosen engine's timeout were it the whole budget
solver_timeout_whole_budget(variant, timeout) == 10 * timeout

\* ten times the timeout of the chosen engine: min(self.timeout * 0.7, 30.0),
\* and self.timeout * 0.7 in the request's solver when the budget is above
\* 600 s
solver_timeout(variant, timeout) ==
    IF variant = "with_progress" /\ timeout > LongBudget THEN 7 * timeout
    ELSE Least(7 * timeout, 10 * PrimaryLimit)

\* ten times the timeout of a fallback: min(remaining_time, 20.0)
fallback_timeout(timeout, elapsed) == Least(10 * (timeout - elapsed), 10 * FallbackLimit)

GovernorEngines(p) ==
    <<_choose_solver(_analyze_position(p))>>
       \o _try_fallbacks_list(_analyze_position(p), _choose_solver(_analyze_position(p)).name)

GovernorWait(variant, timeout) ==
    [op |-> "governor_wait", variant |-> variant, timeout |-> timeout,
     now |-> 0, start |-> 0, limit |-> 0, slot |-> 0,
     threads |-> [i \in 1 .. Len(GovernorEngines(pegs)) |-> "idle"],
     abandoned |-> {}, res |-> MetaNone, source |-> 0]

InitWait ==
    /\ valid = VALID_MASK
    /\ pegs \in WaitBoards
    /\ pc = "ready"
    /\ out = Idle
    /\ db \in SequentialStores

\* the lookup; on a miss the analysis and the choice of the engine
WaitBegin ==
    /\ pc = "ready"
    /\ \E variant \in {"governor", "with_progress"}, timeout \in Budgets :
          IF Truthy(LookupSolver_solve(FALSE, db, valid, pegs).res)
          THEN /\ out' = [GovernorWait(variant, timeout) EXCEPT
                             !.res = MetaFound(LookupSolver_solve(FALSE, db, valid, pegs).res,
                                               "Lookup")]
               /\ pc' = "done"
          ELSE /\ out' = GovernorWait(variant, timeout)
               /\ pc' = "chosen"
    /\ UNCHANGED <<valid, pegs, db>>

\* the timeout of the join ends before the next whole second
JoinExpires == 10 * (out.now + 1 - out.start) > out.limit

\* a second passes (now counts the whole seconds elapsed); thread.join
\* does not outlast its timeout
WaitTick ==
    /\ pc \in {"chosen", "waiting", "fallback"}
    /\ out.now <= out.timeout
    /\ pc = "waiting" => ~ JoinExpires
    /\ out' = [out EXCEPT !.now = @ + 1]
    /\ UNCHANGED <<valid, pegs, pc, db>>

StartThread(slot, limit) ==
    [out EXCEPT !.slot = slot, !.start = out.now, !.limit = limit,
                !.threads[slot] = "running"]

\* thread.start() for the chosen engine; GovernorSolver.solve goes to the
\* fallbacks when the budget is spent before the start
WaitPrimary ==
    /\ pc = "chosen"
    /\ IF out.variant = "governor" /\ out.now > out.timeout
       THEN /\ out' = [out EXCEPT !.slot = 1]
            /\ pc' = "fallback"
       ELSE /\ out' = StartThread(1, solver_timeout(out.variant, out.timeout))
            /\ pc' = "waiting"
    /\ UNCHANGED <<valid, pegs, db>>

\* solve_worker of a thread ends: result[0] = solver.solve(board)
ThreadEnds ==
    /\ out.op = "governor_wait"
    /\ \E i \in DOMAIN out.threads :
          /\ out.threads[i] = "running"
          /\ out' = [out EXCEPT !.threads[i] = "finished"]
    /\ UNCHANGED <<valid, pegs, pc, db>>

\* thread.join(timeout=timeout) returns: the thread has ended or the
\* timeout has
JoinReturns ==
    /\ pc = "waiting"
    /\ out.threads[out.slot] = "finished" \/ JoinExpires
    /\ pc' = "joined"
    /\ UNCHANGED <<valid, pegs, out, db>>

\* thread.is_alive() is false: the result of the thread is taken
JoinEnded ==
    /\ pc = "joined"
    /\ out.threads[out.slot] = "finished"
    /\ IF Truthy(RunChosen(GovernorEngines(pegs)[out.slot], valid, pegs))
       THEN /\ out' = [out EXCEPT
                          !.res = MetaFound(RunChosen(GovernorEngines(pegs)[out.slot],
                                                      valid, pegs),
                                            GovernorEngines(pegs)[out.slot].name),
                          !.source = out.slot]
            /\ pc' = "done"
       ELSE /\ out' = out
            /\ pc' = "fallback"
    /\ UNCHANGED <<valid, pegs, db>>

\* thread.is_alive() after the join: return None, the thread runs on
JoinTimeout ==
    /\ pc = "joined"
    /\ out.threads[out.slot] = "running"
    /\ out' = [out EXCEPT !.abandoned = @ \cup {out.slot}]
    /\ pc' = "fallback"
    /\ UNCHANGED <<valid, pegs, db>>

\* the loop of the fallbacks: the next one is started, or None is returned
\* when the list or the budget is exhausted
WaitFallback ==
    /\ pc = "fallback"
    /\ IF out.slot >= Len(GovernorEngines(pegs)) \/ out.now > out.timeout
          \/ (out.variant = "governor" /\ out.timeout - out.now <= 0)
       THEN /\ out' = out
            /\ pc' = "done"
       ELSE /\ out' = StartThread(out.slot + 1, fallback_timeout(out.timeout, out.now))
            /\ pc' = "waiting"
    /\ UNCHANGED <<valid, pegs, db>>

NextWait ==
    \/ WaitBegin \/ WaitTick \/ WaitPrimary \/ ThreadEnds \/ JoinReturns \/ JoinEnded
    \/ JoinTimeout \/ WaitFallback

SpecWait == InitWait /\ [][NextWait]_vars

(***************************************************************************)
(* web/app.py: the progress events of GovernorSolverWithProgress,          *)
(* SequentialSolverWithProgress and HybridSolverWithProgress               *)
(***************************************************************************)
Event(method, status) == [method |-> method, status |-> status]

ProgressStrategies ==
    <<"Lookup", "DFS", "Beam Search (500)", "Zobrist DFS", "A*", "Pattern A*", "IDA*",
      "Bidirectional", "Parallel DFS", "Parallel Beam", "Exhaustive Search",
      "Brute Force">>

\* the engines of a run: the lookup, the chosen engine and the fallbacks of
\* the Governor, the twelve strategies, the one event pair of Hybrid
ProgressEngines(solver, p) ==
    CASE solver = "governor" ->
            <<"Lookup">> \o [i \in DOMAIN GovernorEngines(p) |-> GovernorEngines(p)[i].name]
      [] solver = "sequential" -> ProgressStrategies
      [] solver = "hybrid" -> <<"Hybrid">>

\* how the call of an engine ends: with a list, with None, with None on its
\* timeout, with an exception; LookupSolver and HybridSolver.solve catch
\* theirs
EngineOutcomes(name) ==
    IF name \in {"Lookup", "Hybrid"} THEN {"solution", "none"}
    ELSE {"solution", "none", "timeout", "raises"}

\* the call is inside a try block whose except branch sends 'failed':
\* the strategies of Sequential and the fallbacks of the Governor
Guarded(solver, idx) == solver = "sequential" \/ (solver = "governor" /\ idx > 2)

Progress(solver, idx, events, late, raised) ==
    [op |-> "events", solver |-> solver, idx |-> idx, events |-> events,
     late |-> late, raised |-> raised]

InitEvents ==
    /\ valid = VALID_MASK
    /\ pegs \in WaitBoards
    /\ pc = "ready"
    /\ out = Idle
    /\ db = EmptyStore

\* solver.solve(board) is entered
EventsBegin ==
    /\ pc = "ready"
    /\ \E solver \in {"governor", "sequential", "hybrid"} :
          out' = Progress(solver, 1, <<>>, FALSE, FALSE)
    /\ pc' = "loop"
    /\ UNCHANGED <<valid, pegs, db>>

\* the clock passes self.timeout while an engine runs
EventsTimeout ==
    /\ pc = "running"
    /\ ~ out.late
    /\ out' = [out EXCEPT !.late = TRUE]
    /\ UNCHANGED <<valid, pegs, pc, db>>

\* Sequential, elapsed > self.timeout: 'failed' is sent for the strategy
\* and the loop continues
EventsSkip ==
    /\ pc = "loop"
    /\ out.solver = "sequential"
    /\ out.idx <= Len(ProgressStrategies)
    /\ out.late /\ ProgressStrategies[out.idx] # "Brute Force"
    /\ out' = [out EXCEPT !.events = Append(@, Event(ProgressStrategies[out.idx], "failed")),
                          !.idx = @ + 1]
    /\ UNCHANGED <<valid, pegs, pc, db>>

\* the list is exhausted, or the Governor finds the budget spent before a
\* fallback: return None
EventsEnd ==
    /\ pc = "loop"
    /\ \/ out.idx > Len(ProgressEngines(out.solver, pegs))
       \/ out.solver = "governor" /\ out.idx > 2 /\ out.late
    /\ pc' = "done"
    /\ UNCHANGED <<valid, pegs, out, db>>

\* progress_callback(name, 'starting', ...)
EventsStart ==
    /\ pc = "loop"
    /\ out.idx <= Len(ProgressEngines(out.solver, pegs))
    /\ out.solver = "sequential" =>
          ~ out.late \/ ProgressStrategies[out.idx] = "Brute Force"
    /\ (out.solver = "governor" /\ out.idx > 2) => ~ out.late
    /\ out' = [out EXCEPT !.events =
                  Append(@, Event(ProgressEngines(out.solver, pegs)[out.idx], "starting"))]
    /\ pc' = "running"
    /\ UNCHANGED <<valid, pegs, db>>

EngineReturns(name, outcome) ==
    /\ out' = [out EXCEPT !.events = Append(@, Event(name, IF outcome = "solution"
                                                         THEN "completed" ELSE "failed")),
                          !.idx = IF outcome = "solution" THEN @ ELSE @ + 1]
    /\ pc' = IF outcome = "solution" THEN "done" ELSE "loop"

\* the engine returns: 'completed' and the list is returned, or 'failed'
\* and the next engine is tried
EventsReturn ==
    /\ pc = "running"
    /\ \E outcome \in EngineOutcomes(ProgressEngines(out.solver, pegs)[out.idx])
                         \ {"raises"} :
          EngineReturns(ProgressEngines(out.solver, pegs)[out.idx], outcome)
    /\ UNCHANGED <<valid, pegs, db>>

\* the engine raises: the except branch sends 'failed'; where there is no
\* try block the exception leaves solve
EventsRaise ==
    /\ pc = "running"
    /\ "raises" \in EngineOutcomes(ProgressEngines(out.solver, pegs)[out.idx])
    /\ IF Guarded(out.solver, out.idx)
       THEN EngineReturns(ProgressEngines(out.solver, pegs)[out.idx], "raises")
       ELSE /\ out' = [out EXCEPT !.raised = TRUE]
            /\ pc' = "done"
    /\ UNCHANGED <<valid, pegs, db>>

NextEvents ==
    \/ EventsBegin \/ EventsTimeout \/ EventsSkip \/ EventsEnd \/ EventsStart
    \/ EventsReturn \/ EventsRaise

SpecEvents == InitEvents /\ [][NextEvents]_vars

\* the Pagoda test of DFSSolver._dfs and of IDAStarSolver._search reached
\* by the root call: the board has more than one peg and its Pagoda sum is
\* below the weight of the centre
DFSSolver_pagoda_prunes(cfg, p) ==
    /\ peg_count(p) # 1
    /\ cfg.use_pagoda
    /\ pagoda_value(p) < PAGODA_WEIGHTS[CENTER_POS]

IDAStar_pagoda_prunes(v, p) ==
    /\ peg_count(p) # 1
    /\ is_english_board(v)
    /\ pagoda_value(p) < PAGODA_WEIGHTS[CENTER_POS]

(***************************************************************************)
(* web/app.py solve_stream: the worker thread puts its events on           *)
(* progress_queue and the generator polls the queue and sends them         *)
(***************************************************************************)
Result(success) == Event("result", IF success THEN "success" ELSE "failure")

\* what solve_in_thread puts for one request: 'starting' for a single
\* engine, 'running', the events of the meta-solver, the result
Script(solver_type, events, success) ==
    (IF solver_type \in {"governor", "sequential", "hybrid"} THEN <<>>
     ELSE <<Event(solver_type, "starting")>>)
       \o <<Event(solver_type, "running")>> \o events \o <<Result(success)>>

StreamScripts ==
    { Script("dfs", <<>>, s) : s \in BOOLEAN }
       \cup { Script("hybrid", <<Event("Hybrid", "starting"),
                                 Event("Hybrid", IF s THEN "completed" ELSE "failed")>>, s) :
                s \in BOOLEAN }
       \cup { Script("governor", <<Event("Lookup", "starting"),
                                   Event("Lookup", "completed")>>, TRUE) }

Stream(script, put, queue, sent, alive) ==
    [op |-> "stream", script |-> script, put |-> put, queue |-> queue,
     sent |-> sent, alive |-> alive]

InitStream ==
    /\ valid = VALID_MASK
    /\ pegs \in WaitBoards
    /\ pc = "ready"
    /\ out = Idle
    /\ db = EmptyStore

\* thread.start()
StreamBegin ==
    /\ pc = "ready"
    /\ \E script \in StreamScripts : out' = Stream(script, 0, <<>>, <<>>, TRUE)
    /\ pc' = "get"
    /\ UNCHANGED <<valid, pegs, db>>

\* progress_queue.put(event_data) in the worker thread
WorkerPut ==
    /\ out.op = "stream" /\ out.alive
    /\ out.put < Len(out.script)
    /\ out' = [out EXCEPT !.queue = Append(@, out.script[out.put + 1]), !.put = @ + 1]
    /\ UNCHANGED <<valid, pegs, pc, db>>

\* solve_in_thread returns: the thread is not alive any more
WorkerExit ==
    /\ out.op = "stream" /\ out.alive
    /\ out.put = Len(out.script)
    /\ out' = [out EXCEPT !.alive = FALSE]
    /\ UNCHANGED <<valid, pegs, pc, db>>

\* progress_queue.get(timeout=0.1) returns an event: it is sent, and a
\* result event ends the stream
ConsumerGet ==
    /\ pc = "get"
    /\ out.queue # <<>>
    /\ out' = [out EXCEPT !.queue = Tail(@), !.sent = Append(@, Head(out.queue))]
    /\ pc' = IF Head(out.queue).method = "result" THEN "ended" ELSE "get"
    /\ UNCHANGED <<valid, pegs, db>>

\* the get raises queue.Empty
ConsumerEmpty ==
    /\ pc = "get"
    /\ out.queue = <<>>
    /\ pc' = "empty"
    /\ UNCHANGED <<valid, pegs, out, db>>

\* except queue.Empty: a live thread sends the loop round again; when the
\* thread is not alive one event is taken with get_nowait and the stream
\* ends
ConsumerAlive ==
    /\ pc = "empty"
    /\ IF out.alive
       THEN /\ out' = out
            /\ pc' = "get"
       ELSE /\ out' = IF out.queue = <<>> THEN out
                      ELSE [out EXCEPT !.queue = Tail(@),
                                       !.sent = Append(@, Head(out.queue))]
            /\ pc' = "ended"
    /\ UNCHANGED <<valid, pegs, db>>

NextStream ==
    \/ StreamBegin \/ WorkerPut \/ WorkerExit \/ ConsumerGet \/ ConsumerEmpty
    \/ ConsumerAlive

SpecStream == InitStream /\ [][NextStream]_vars

(***************************************************************************)
(* heuristics/pattern_db.py: PatternDatabase                               *)
(***************************************************************************)
\* the five regions, each as sorted(region)
REGION_TOP == <<2, 3, 4, 9, 10, 11>>

REGION_BOTTOM == <<37, 38, 39, 44, 45, 46>>

REGION_LEFT == <<14, 15, 21, 22, 28, 29>>

REGION_RIGHT == <<19, 20, 26, 27, 33, 34>>

REGION_CENTER == <<16, 17, 18, 23, 24, 25, 30, 31, 32>>

REGION_NAMES == <<"TOP", "BOTTOM", "LEFT", "RIGHT", "CENTER">>

REGIONS ==
    [name \in Range(REGION_NAMES) |->
        CASE name = "TOP" -> REGION_TOP
          [] name = "BOTTOM" -> REGION_BOTTOM
          [] name = "LEFT" -> REGION_LEFT
          [] name = "RIGHT" -> REGION_RIGHT
          [] name = "CENTER" -> REGION_CENTER]

\* the region's state: bit i is set when the i-th cell of the sorted region
\* holds a peg
extract_region_state(p, region) ==
    { i \in 0 .. (Len(region) - 1) : region[i + 1] \in p }

\* the breadth-first loop of build_region_db, one layer of the queue at a
\* time: the states first reached from the layer by setting one more bit
\* get the layer's cost plus one
RECURSIVE build_region_layers(_, _, _, _)
build_region_layers(region_size, region_db, layer, current_cost) ==
    LET reached == { state \cup {i} : state \in layer,
                                      i \in 0 .. (region_size - 1) }
        new_states == reached \ DOMAIN region_db
    IN  IF new_states = {} THEN region_db
        ELSE build_region_layers(
                 region_size,
                 [state \in DOMAIN region_db \cup new_states |->
                     IF state \in DOMAIN region_db THEN region_db[state] ELSE current_cost + 1],
                 new_states, current_cost + 1)

build_region_db(region_name) ==
    build_region_layers(Len(REGIONS[region_name]), [state \in {{}} |-> 0], {{}}, 0)

\* build_all
databases == [name \in Range(REGION_NAMES) |-> build_region_db(name)]

RECURSIVE get_heuristic_from(_, _)
get_heuristic_from(p, k) ==
    IF k > Len(REGION_NAMES) THEN 0
    ELSE LET name == REGION_NAMES[k]
             state == extract_region_state(p, REGIONS[name])
         IN  (IF state \in DOMAIN databases[name] THEN databases[name][state] ELSE 0)
                + get_heuristic_from(p, k + 1)

get_heuristic(p) == get_heuristic_from(p, 1)

pattern_heuristic(p) == get_heuristic(p)

(***************************************************************************)
(* The heuristics computed for the current board                           *)
(***************************************************************************)
PatternHeuristic ==
    /\ pc = "ready"
    /\ out' = [op |-> "pattern_heuristic", res |-> pattern_heuristic(pegs)]
    /\ pc' = "done"
    /\ UNCHANGED <<valid, pegs, db>>

NextHeuristic == PatternHeuristic

SpecHeuristic == InitBoard /\ [][NextHeuristic]_vars

(***************************************************************************)
(* What a legal jump is (spec.md, section 3, "Move")                       *)
(***************************************************************************)
Dirs == {1, -1, 7, -7}

SameLine(a, b, d) == IF Abs(d) = 1 THEN RowOf(a) = RowOf(b) ELSE ColOf(a) = ColOf(b)

LegalJump(p, v, m) ==
    \E d \in Dirs :
       /\ m[2] = m[1] + d /\ m[3] = m[1] + 2 * d
       /\ m[1] \in FullMask /\ m[3] \in FullMask
       /\ SameLine(m[1], m[3], d)
       /\ m[1] \in p \cap v /\ m[2] \in p \cap v /\ m[3] \in v \ p

LegalJumps(p, v) ==
    { m \in { <<f, f + d, f + 2 * d>> : f \in p, d \in Dirs } : LegalJump(p, v, m) }

\* the image of a mask under a symmetry of the square: k quarter turns,
\* after a mirror of the columns when f is set
TurnCell(pos, k) ==
    LET r == RowOf(pos)
        c == ColOf(pos)
    IN  CASE k = 0 -> r * 7 + c
          [] k = 1 -> c * 7 + (6 - r)
          [] k = 2 -> (6 - r) * 7 + (6 - c)
          [] k = 3 -> (6 - c) * 7 + r

MirrorCell(pos) == RowOf(pos) * 7 + (6 - ColOf(pos))

Symmetry(p, k, f) ==
    { TurnCell(IF f THEN MirrorCell(pos) ELSE pos, k) : pos \in p }

(***************************************************************************)
(* core/zobrist.py: a ZobristBitBoard built from the pegs of a board, and  *)
(* the legal jumps of that board applied to it one after the other         *)
(***************************************************************************)
ZobristBoard(zobrist_hash, raised, move) ==
    [op |-> "zobrist", zobrist_hash |-> zobrist_hash, raised |-> raised, move |-> move]

InitZobrist ==
    /\ \E b \in Boards : valid = b[1] /\ pegs = b[2]
    /\ pc = "ready"
    /\ out = ZobristBoard(compute_zobrist_hash(pegs), FALSE, <<>>)
    /\ db = EmptyStore

ZobristApplyMove ==
    /\ pc = "ready"
    /\ \E m \in LegalJumps(pegs, valid) :
          LET r == ZobristBitBoard_apply_move(pegs, out.zobrist_hash, m)
          IN  IF r.new_hash.raised
              THEN /\ out' = ZobristBoard(out.zobrist_hash, TRUE, m)
                   /\ pc' = "done"
                   /\ UNCHANGED pegs
              ELSE /\ out' = ZobristBoard(r.new_hash.hash, FALSE, m)
                   /\ pegs' = r.pegs
                   /\ UNCHANGED pc
    /\ UNCHANGED <<valid, db>>

NextZobrist == ZobristApplyMove

SpecZobrist == InitZobrist /\ [][NextZobrist]_vars

\* C4: on a board with pegs inside valid, get_moves returns exactly the
\* legal jumps: a triple is returned iff it is a legal jump of the board.
C4_GenerateMovesExact ==
    (out.op = "get_moves" /\ pegs \subseteq valid)
        => Range(out.res) = LegalJumps(pegs, valid)

\* C5: on a board with pegs inside valid, is_dead is true iff get_moves is
\* empty and the board has more than one peg.
C5_IsDeadIffNoMoves ==
    (out.op = "is_dead" /\ pegs \subseteq valid)
        => (out.res <=> (get_moves(pegs) = <<>> /\ peg_count(pegs) > 1))

\* C9: on an English-cross board, the canonical form of each of the 8
\* symmetric images of the board equals the canonical form of the board.
C9_CanonicalInvariant ==
    (out.op = "canonical" /\ is_english_board(valid) /\ pegs \subseteq valid)
        => \A k \in 0 .. 3 : \A f \in BOOLEAN :
              canonical(Symmetry(pegs, k, f)) = out.res

\* a board none of whose 7 other images equals it, whose canonical form is
\* another board than itself
C9_Witness ==
    /\ out.op = "canonical" /\ is_english_board(valid)
    /\ peg_count(pegs) = 3
    /\ out.res # pegs
    /\ \A k \in 0 .. 3 : \A f \in BOOLEAN :
          (k # 0 \/ f) => Symmetry(pegs, k, f) # pegs

\* C10: on a board whose valid mask is not the English cross, canonical
\* returns the board's own pegs.
C10_CanonicalIdentity ==
    (out.op = "canonical" /\ ~ is_english_board(valid) /\ pegs \subseteq valid)
        => out.res = pegs

\* the pegs left by a list of moves, each applied with three XORs
RECURSIVE PegsAfter(_, _)
PegsAfter(p, moves) ==
    IF moves = <<>> THEN p
    ELSE PegsAfter(Xor(Xor(Xor(p, {Head(moves)[1]}), {Head(moves)[2]}), {Head(moves)[3]}),
                   Tail(moves))

\* every move of the list is a legal jump in the state the moves before it
\* lead to
RECURSIVE LegalRun(_, _, _)
LegalRun(p, v, moves) ==
    \/ moves = <<>>
    \/ /\ LegalJump(p, v, Head(moves))
       /\ LegalRun(PegsAfter(p, <<Head(moves)>>), v, Tail(moves))

\* C3: when verify returns true, every move is a legal jump (cells in valid,
\* pegs at from and over, hole at to, the three cells adjacent on one row or
\* column) in the state before it, and the final state has exactly one peg,
\* in the centre when the centre was required.
C3_VerifyAcceptsOnlyLegal ==
    (out.op = "verify" /\ out.res /\ pegs \subseteq valid)
        => /\ LegalRun(pegs, valid, out.moves)
           /\ peg_count(PegsAfter(pegs, out.moves)) = 1
           /\ (out.require_center => PegsAfter(pegs, out.moves) = {CENTER_POS})

\* some list of legal jumps leads from the board to a one-peg board
RECURSIVE Solvable(_, _)
Solvable(p, v) ==
    \/ peg_count(p) = 1
    \/ \E m \in LegalJumps(p, v) : Solvable(PegsAfter(p, <<m>>), v)

\* C2: a move list returned by a solver, for a start board with pegs inside
\* valid, is accepted by verify for that board.
C2_SolverResultVerifies ==
    (out.op = "solve" /\ out.res.found /\ pegs \subseteq valid)
        => verify_bitboard_solution(pegs, valid, out.res.path, FALSE)

\* C6: when DFS-memo returns None no list of legal jumps reaches a one-peg
\* board, and no key of its memo is a board from which one can be reached.
C6_DFSMemoNoneMeansUnsolvable ==
    (out.op = "solve" /\ out.solver = "dfs_memo" /\ pegs \subseteq valid)
        => /\ ~ out.res.found => ~ Solvable(pegs, valid)
           /\ \A key \in out.memo : ~ Solvable(key, valid)

\* C7: on a board of exactly two pegs with exactly one legal jump, each of
\* DFS, DFS-memo, SimpleDFS, Beam and A* returns the list of that one jump.
C7_TwoPegsOneJump ==
    (/\ out.op = "solve"
     /\ pegs \subseteq valid
     /\ peg_count(pegs) = 2
     /\ Cardinality(LegalJumps(pegs, valid)) = 1)
        => /\ out.res.found
           /\ Len(out.res.path) = 1
           /\ out.res.path[1] \in LegalJumps(pegs, valid)

\* C8: on a board that has exactly one peg, at any cell, each of SimpleDFS,
\* DFS, DFS-memo, Beam and A* returns the empty move list, not None.
C8_OnePegEmptySolution ==
    (out.op = "solve" /\ pegs \subseteq valid /\ peg_count(pegs) = 1)
        => (out.res.found /\ out.res.path = <<>>)

\* C1: a move list a meta-solver returns from a non-lookup engine is
\* accepted by the verifier for the start board.
C1_MetaResultVerified ==
    (/\ out.op = "meta"
     /\ out.res.found
     /\ out.engine # "Lookup"
     /\ pegs \subseteq valid)
        => verify_bitboard_solution(pegs, valid, out.res.path, FALSE)

\* C11: the valid mask never changes: a board derived from the current one
\* by apply_move has the valid mask of the board it was derived from.
C11_ValidNeverChanges == [][valid' = valid]_vars

\* C12: after every legal move applied to a ZobristBitBoard, the hash kept
\* by the board equals the hash computed from scratch over its pegs.
C12_IncrementalHashIsHash ==
    (out.op = "zobrist" /\ out.move # <<>>)
        => (~ out.raised /\ out.zobrist_hash = compute_zobrist_hash(pegs))

\* C13: on an English-cross board no move applied to the board makes the
\* Pagoda sum of its pegs larger.
C13_PagodaNeverIncreases ==
    [][(/\ is_english_board(valid) /\ pegs \subseteq valid
        /\ out'.op = "apply_move" /\ pegs' # pegs)
          => pagoda_value(pegs') <= pagoda_value(pegs)]_vars

\* a jump into the centre has been applied on the English cross
C13_Witness ==
    /\ out.op = "apply_move" /\ is_english_board(valid) /\ pegs \subseteq valid
    /\ out.res[3] = CENTER_POS
    /\ pagoda_value(pegs) < pagoda_value(apply_move(pegs, out.res))

\* some list of L legal jumps leads from the board to a one-peg board
RECURSIVE SolvableIn(_, _, _)
SolvableIn(p, v, L) ==
    IF L = 0 THEN peg_count(p) = 1
    ELSE \E m \in LegalJumps(p, v) : SolvableIn(PegsAfter(p, <<m>>), v, L - 1)

\* C14: on an English-cross board that has a solution of length L, the
\* Pattern Database heuristic of the board is at most L.
C14_PatternHeuristicAdmissible ==
    (out.op = "pattern_heuristic" /\ is_english_board(valid) /\ pegs \subseteq valid)
        => \A L \in 0 .. MaxPegs : SolvableIn(pegs, valid, L) => out.res <= L

\* C15: a sequence returned by Bidirectional search for a given target is
\* legal move by move from the start board and ends in the target state.
C15_BidirectionalPathLegal ==
    (/\ out.op = "bidirectional" /\ out.target.given /\ out.res.found
     /\ pegs \subseteq valid)
        => /\ LegalRun(pegs, valid, out.res.path)
           /\ PegsAfter(pegs, out.res.path) = out.target.pegs

OnePegNodes(beam) == { i \in 1 .. Len(beam) : peg_count(beam[i][1]) = 1 }

\* C16: in Beam search and Parallel Beam search, for every beam width and
\* every max depth, when the beam of a layer up to the depth limit holds a
\* node with exactly one peg, solve returns the path of such a node of
\* that beam
C16_BeamReturnsTerminalNode ==
    out.op \in {"beam_layers", "parallel_beam"} =>
        \A layer \in 1 .. Len(out.beams) :
            (layer - 1 <= out.cfg.max_depth /\ OnePegNodes(out.beams[layer]) # {}) =>
                /\ out.res.found
                /\ \E i \in OnePegNodes(out.beams[layer]) :
                       out.res.path = out.beams[layer][i][2]

\* C17: in Parallel DFS, once solve has received a solution from one
\* worker, no other worker goes on beyond its next recursive call: a
\* worker makes at most one call of _dfs after that
C17_WorkersStopAfterSolution ==
    out.op = "parallel" =>
        \A i \in 1 .. Len(out.futures) : out.futures[i].late <= 1

\* C18: for every English-cross position whose Pagoda sum is strictly less
\* than the weight of the centre, DFS-memo with Pagoda pruning enabled
\* returns not-found at the root call without generating any move
C18_PagodaBlockedRoot ==
    (/\ out.op = "solve" /\ out.solver = "dfs_memo"
     /\ DFSDefaults.use_pagoda
     /\ is_english_board(valid) /\ pegs \subseteq valid
     /\ pagoda_value(pegs) < PAGODA_WEIGHTS[CENTER_POS]) =>
        (~ out.res.found /\ ~ DFSMemoSolver_generates(DFSDefaults, valid, pegs))

\* C19: every solution in the solution store was accepted by the verifier
\* for the board under whose key it is stored: whichever way it is
\* inserted (explicit add, the fallback of the lookup engine, a request
\* handler saving a solver's result), the list just stored under the key
\* of the board passes verify_bitboard_solution for that board
C19_StoredSolutionVerified ==
    (out.op \in {"add_solution", "fallback", "request"} /\ out.stored) =>
        /\ LookupKey(valid, pegs) \in DOMAIN db
        /\ verify_bitboard_solution(pegs, valid, db[LookupKey(valid, pegs)], FALSE)

\* C20: after an accepted solution s has been inserted under board b,
\* every later lookup of b, also after further insertions under the same
\* key, returns a solution that the verifier accepts for b and that is not
\* longer than s; and an entry of the store is replaced only by a strictly
\* shorter solution and is otherwise kept
C20_LookupAfterInsert ==
    [][/\ \A key \in DOMAIN db :
              /\ key \in DOMAIN db'
              /\ (db'[key] = db[key] \/ Len(db'[key]) < Len(db[key]))
       /\ (/\ out'.op \in {"lookup", "fallback"}
           /\ out.accepted.given
           /\ out.accepted.valid = valid /\ out.accepted.pegs = pegs) =>
              /\ out'.res.found
              /\ verify_bitboard_solution(pegs, valid, out'.res.path, FALSE)
              /\ Len(out'.res.path) <= out.accepted.len]_vars

\* C21: when the queried English-cross board is a symmetric image of a
\* board the stored solution is accepted for (its canonical key is in the
\* store and its own pegs are not), lookup returns a sequence that the
\* verifier accepts on the queried board
C21_CanonicalHitVerifies ==
    (/\ out.op = "lookup"
     /\ is_english_board(valid)
     /\ pegs \notin DOMAIN db
     /\ canonical(pegs) \in DOMAIN db
     /\ \E b \in StoreBoards :
            /\ is_english_board(b[1])
            /\ canonical(b[2]) = canonical(pegs)
            /\ verify_bitboard_solution(b[2], b[1], db[canonical(pegs)], FALSE)) =>
        /\ out.res.found
        /\ verify_bitboard_solution(pegs, valid, out.res.path, FALSE)

\* C22: every write of the solution store to disk is atomic: at every
\* instant, also after an error or a crash in the middle of a write, the
\* store file holds the complete previous contents or the complete new
\* contents
C22_WriteAtomic ==
    out.op = "write" =>
        out.file \in {Serialise(out.previous), Serialise(out.data)}

\* C23: when two additions for different keys run concurrently, both
\* entries are in the persisted store afterwards
C23_NoLostUpdate ==
    (out.op = "adders" /\ \A i \in 1 .. 2 : out.procs[i].pc = "saved") =>
        \A i \in 1 .. 2 :
            /\ out.procs[i].key \in DOMAIN db
            /\ db[out.procs[i].key] = out.procs[i].moves

EngineOrder ==
    <<"Lookup", "DFS", "Beam Search", "Zobrist DFS", "A*", "Pattern A*", "IDA*",
      "Bidirectional", "Parallel DFS", "Parallel Beam", "Exhaustive Search",
      "Brute Force">>

EnginePosition(name) == CHOOSE i \in DOMAIN EngineOrder : EngineOrder[i] = name

EnginesBefore(name, strategies) ==
    { strategies[i] : i \in { j \in DOMAIN strategies :
                                EnginePosition(strategies[j]) < EnginePosition(name) } }

\* C24: Sequential tries its engines in the order Lookup, DFS, Beam,
\* Zobrist-DFS, A*, Pattern-A*, IDA*, Bidirectional, Parallel-DFS,
\* Parallel-Beam, Exhaustive, Brute-force on a board of any size: an engine
\* is started only after every engine before it in that list has finished
\* without an accepted solution, and the value returned is the output of
\* the first engine in that order whose output passes the verifier
C24_SequentialOrder ==
    out.op = "sequential" =>
        /\ \A i \in DOMAIN out.starts :
              EnginesBefore(out.starts[i], SequentialStrategies(pegs))
                 \subseteq { out.starts[j] : j \in 1 .. i - 1 }
        /\ (pc = "done" /\ out.res.found) =>
              /\ verify_bitboard_solution(pegs, valid, out.res.path, FALSE)
              /\ \A name \in EnginesBefore(out.res.engine, SequentialStrategies(pegs)) :
                    ~ verify_bitboard_solution(
                          pegs, valid, RunStrategy(name, db, valid, pegs).path, FALSE)

\* the classes of a position: pegs, |moves| and mobility = |moves| / pegs
SmallClass(p) == peg_count(p) < 10 /\ 10 * Len(get_moves(p)) > 3 * peg_count(p)

HighMobilityClass(p) == 2 * Len(get_moves(p)) > 3 * peg_count(p)

MediumClass(p) == 10 <= peg_count(p) /\ peg_count(p) <= 20

HardClass(p) == peg_count(p) > 20 \/ 2 * Len(get_moves(p)) < peg_count(p)

\* C25: after a store miss the engine the Governor chooses follows from
\* the class of the position: small (pegs < 10 and mobility > 0.3) gives
\* DFS; high mobility (> 1.5) gives Beam; medium (10 to 20 pegs) gives
\* Pattern A* or, without the pattern database, Beam; hard (pegs > 20 or
\* mobility < 0.5) gives IDA* above 25 pegs and a wider Beam otherwise
C25_GovernorChoice ==
    (out.op = "meta" /\ out.solver = "governor" /\ out.engine # "Lookup"
                     /\ peg_count(pegs) > 0) =>
        IF SmallClass(pegs)
        THEN _choose_solver(_analyze_position(pegs)).engine = "dfs"
        ELSE IF HighMobilityClass(pegs)
        THEN _choose_solver(_analyze_position(pegs)).engine = "beam"
        ELSE IF MediumClass(pegs)
        THEN _choose_solver(_analyze_position(pegs)).engine \in {"pattern_astar", "beam"}
        ELSE IF HardClass(pegs) /\ peg_count(pegs) > 25
        THEN _choose_solver(_analyze_position(pegs)).engine = "ida_star"
        ELSE IF HardClass(pegs)
        THEN /\ _choose_solver(_analyze_position(pegs)).engine = "beam"
             /\ _choose_solver(_analyze_position(pegs)).beam_width > 300
        ELSE TRUE

\* C26: the Governor waits for its chosen engine for at most 70% of its
\* time budget; when that limit has elapsed it goes on to the fallbacks
\* whether or not the engine has finished, and the value it returns is
\* never a result of an engine it has stopped waiting for
C26_PrimaryWaitBounded ==
    out.op = "governor_wait" =>
        /\ (pc = "waiting" /\ out.slot = 1) =>
              10 * (out.now - out.start) <= 7 * out.timeout
        /\ 1 \in out.abandoned => pc \notin {"waiting", "joined"} \/ out.slot > 1
        /\ out.source \notin out.abandoned

C26_LateResultUnused ==
    /\ out.op = "governor_wait"
    /\ pc = "done"
    /\ 1 \in out.abandoned
    /\ out.threads[1] = "finished"
    /\ Truthy(RunChosen(GovernorEngines(pegs)[1], valid, pegs))
    /\ out.source # 1

Terminal == {"completed", "failed", "timeout"}

\* the terminal events of the engine of event i that come after it
TerminalAfter(events, i) ==
    { j \in DOMAIN events : /\ j > i
                            /\ events[j].method = events[i].method
                            /\ events[j].status \in Terminal }

\* C27: for every engine a meta-solver starts, the starting event is
\* followed by exactly one terminal event (completed, failed or timeout)
\* of that engine, whether the engine succeeds, finds nothing, times out or
\* raises an exception, and by no second one
C27_OneTerminalEvent ==
    out.op = "events" =>
        \A i \in DOMAIN out.events :
            out.events[i].status = "starting" =>
                /\ Cardinality(TerminalAfter(out.events, i)) <= 1
                /\ pc = "done" => Cardinality(TerminalAfter(out.events, i)) = 1

\* C29: a terminal event (completed, failed or timeout) is sent for an
\* engine only after a starting event of the same engine, also for an
\* engine that is skipped because the budget is used up
C29_TerminalAfterStarting ==
    out.op = "events" =>
        \A j \in DOMAIN out.events :
            out.events[j].status \in Terminal =>
                \E i \in 1 .. j - 1 :
                    /\ out.events[i].method = out.events[j].method
                    /\ out.events[i].status = "starting"

\* C28: Pagoda pruning is sound for the goal of the solver: a solver whose
\* goal is any one-peg board does not reject, by its Pagoda test, a board
\* from which a one-peg board can be reached
C28_PagodaPruneSound ==
    (out.op = "solve" /\ is_english_board(valid) /\ pegs \subseteq valid) =>
        /\ (out.solver = "dfs" /\ DFSSolver_pagoda_prunes(DFSDefaults, pegs)) =>
              ~ Solvable(pegs, valid)
        /\ (out.solver = "ida_star" /\ IDAStar_pagoda_prunes(valid, pegs)) =>
              ~ Solvable(pegs, valid)

\* C30: every event the worker thread puts on the progress queue, the
\* progress events and the one result event, is sent to the consumer in
\* the order it was put before the stream ends: in every interleaving of
\* the worker and the polling generator the stream ends only after the
\* result event has been sent
C30_StreamDeliversAll ==
    out.op = "stream" =>
        /\ out.sent = SubSeq(out.script, 1, Len(out.sent))
        /\ pc = "ended" => out.sent = SubSeq(out.script, 1, out.put)
        /\ pc = "ended" => /\ out.sent # <<>>
                           /\ out.sent[Len(out.sent)].method = "result"

====
